---- MODULE Spec2Model ----
(***************************************************************************)
(* Model of the SID tune maker: the Sequencer's note grid and its editing  *)
(* handlers, the Transport's look-ahead scheduler with its deferred beat   *)
(* callbacks, the voices' ADSR envelopes in the engine and in the offline  *)
(* renderer, and the AudioExporter / ExportModal export exclusion.         *)
(***************************************************************************)
EXTENDS Integers, Sequences, FiniteSets, TLC

\* ------------------------------------------------------------------ bounds
NumVoices == 2          \* the program has 3 voices
NumRows   == 2          \* the program has 16 pitch rows
NumCols   == 4          \* the program has 64 columns
MaxLen    == 3          \* largest length argument handed to setCell
MaxNotes  == 2          \* cap on the number of note-starts in the grid

Voices == 0 .. NumVoices - 1
Rows   == 0 .. NumRows - 1
Cols   == 0 .. NumCols - 1

\* ------------------------------------------------------------------- state
VARIABLES
    grid,            \* Sequencer.grid[voice][noteIndex][col]: 0 = null, n = {length: n}
    isDrawing,       \* Sequencer.isDrawing
    isRapidMode,     \* Sequencer.isRapidMode
    drawStart,       \* Sequencer.drawStart ({voice, noteIndex, col} or null)
    drawLastCol,     \* Sequencer.drawLastCol (-1 = null)
    drawLastCell,    \* Sequencer.drawLastCell (cell key <<noteIndex, col>>, <<-1,-1>> = null)
    selection,       \* Sequencer.selection
    isSelecting,     \* Sequencer.isSelecting
    selectionStart,  \* Sequencer.selectionStart
    clipboard,       \* Sequencer.clipboard
    lastEdit,        \* the editing operation that ran last, with the note it tried to write
    currentStep,     \* Sequencer.currentStep
    isPlaying,       \* Transport.isPlaying
    bpm,             \* Transport.bpm
    stateBpm,        \* state.bpm, the tempo the Sequencer reads
    currentBeat,     \* Transport.currentBeat
    loopStart,       \* Transport.loopStart (bars)
    loopEnd,         \* Transport.loopEnd (bars)
    schedulerInterval, \* Transport.schedulerInterval: handle of the armed tick, 0 = null
    liveIntervals,   \* handles of the setInterval ticks that are armed in the runtime
    nextBeatTime,    \* Transport.nextBeatTime (microseconds of audio-clock time)
    timers,          \* the setTimeout callbacks queued by scheduleBeat, in insertion order
    now,             \* engine.currentTime, the audio clock (microseconds)
    activeOsc,       \* per voice: SIDVoice.activeOsc / activeGain, the sounding instance
    liveNodes,       \* per voice: the oscillator/envelope pairs created and not retired by stop()
    lastScheduled,   \* the beat scheduled last since play() (-1: none yet)
    stoppedAt,       \* the audio-clock time of the last stop() that halted playback (-1: none)
    lastTransport,   \* the transport operation that ran last
    exporterIsExporting, \* AudioExporter.isExporting
    modalIsExporting,    \* ExportModal.isExporting
    rendering,       \* the render passes awaiting offlineCtx.startRendering(), oldest first
    lamejsLoaded,    \* whether the MP3 encoder (the global lamejs) is defined
    lastExport,      \* the export step that ran last
    currentProject,  \* ProjectManager.currentProject: where its grid and voices fields
                     \* come from, and its bpm field
    app,             \* main.js: whether engine.isInitialized, whether the Sequencer has
                     \* been constructed (sequencer # null), and the loading screen
    voiceParams,     \* per voice: SIDVoice.params, its attack, decay and release in
                     \* microseconds and its sustain level in hundredths
    lastEnvelope     \* the gain automation of the note that the engine or the offline
                     \* renderer was last asked for on its own, and what it was asked

gridVars == <<grid, isDrawing, isRapidMode, drawStart, drawLastCol, drawLastCell,
              selection, isSelecting, selectionStart, clipboard, lastEdit>>

transportVars == <<isPlaying, bpm, stateBpm, currentBeat, loopStart, loopEnd,
                   schedulerInterval, liveIntervals, nextBeatTime, timers, now,
                   lastScheduled, stoppedAt, lastTransport>>

voiceVars == <<activeOsc, liveNodes, currentStep>>

exportVars == <<exporterIsExporting, modalIsExporting, rendering, lamejsLoaded, lastExport,
                currentProject>>

appVars == <<app>>

engineVars == <<voiceParams, lastEnvelope>>

vars == <<gridVars, transportVars, voiceVars, exportVars, appVars, engineVars>>

\* ------------------------------------------------------------ null values
NoCell      == [voice |-> -1, noteIndex |-> -1, col |-> -1]
NoKey       == <<-1, -1>>
NoSelection == [voice |-> -1, startNote |-> -1, endNote |-> -1, startCol |-> -1, endCol |-> -1]
NoClipboard == [present |-> FALSE, notes |-> <<>>, width |-> 0, height |-> 0]
NoOsc       == [noteIndex |-> -1, start |-> -1, duration |-> 0]

\* What an editing handler did: its name and the note-start (voice,
\* noteIndex, col, length) it was asked to write or the cell it was aimed at;
\* for a bulk edit of the selection noteIndex and col hold the row and column
\* delta and length the number of note-starts it moved. threw tells that the
\* handler ended in an uncaught TypeError.
Edit(op, v, n, c, len) ==
    [op |-> op, voice |-> v, noteIndex |-> n, col |-> c, length |-> len, threw |-> FALSE]

Max(a, b) == IF a >= b THEN a ELSE b
Min(a, b) == IF a <= b THEN a ELSE b

EmptyGrid == [v \in Voices |-> [n \in Rows |-> [c \in Cols |-> 0]]]

NoteCount(g) == Cardinality({x \in Voices \X Rows \X Cols : g[x[1]][x[2]][x[3]] > 0})

\* this.grid[voice][noteIndex][col] = value
SetAt(g, v, n, c, val) == [g EXCEPT ![v][n][c] = val]

\* -------------------------------------------------------------- SIDVoice
PreviewMicros == 200000     \* previewNote plays for 0.2 s

\* SIDVoice.playNote(frequency, duration): stop() retires the sounding
\* instance, then the new oscillator/envelope pair starts at the audio
\* clock's current time and becomes the voice's active instance.
playNote(osc, v, n, duration) ==
    [osc EXCEPT ![v] = [noteIndex |-> n, start |-> now, duration |-> duration]]

\* SIDEngine.stopAll(): every voice's stop() drops its active instance.
stopAll(osc) == [v \in Voices |-> NoOsc]

\* SIDVoice.stop() on the audio graph: the pair the voice references is
\* faded to 0 within 0.02 s and its oscillator stopped at 0.03 s, which
\* retires it; a pair the voice does not reference is out of its reach.
voiceStop(nodes, osc, v) == [nodes EXCEPT ![v] = @ \ {osc[v]}]

\* SIDEngine.stopAll() on the audio graph
stopAllNodes(nodes, osc) == [v \in Voices |-> nodes[v] \ {osc[v]}]

\* playNote that starts the new pair without calling stop() first
nodesAfterPlay_noStop(nodes, osc, v, n, duration) ==
    [nodes EXCEPT ![v] = @ \cup {playNote(osc, v, n, duration)[v]}]

\* SIDVoice.playNote on the audio graph: stop(), then the new pair is
\* created, connected and started
nodesAfterPlay(nodes, osc, v, n, duration) ==
    [voiceStop(nodes, osc, v) EXCEPT ![v] = @ \cup {playNote(osc, v, n, duration)[v]}]

\* The voices before and after a playNote call: the references, the audio
\* graph, and the count of the pairs that the calls so far have retired.
playNoteOn(s, v, n, duration) ==
    [osc     |-> playNote(s.osc, v, n, duration),
     nodes   |-> nodesAfterPlay(s.nodes, s.osc, v, n, duration),
     retired |-> s.retired + (IF s.osc[v] # NoOsc THEN 1 ELSE 0),
     calls   |-> Append(s.calls, [voice |-> v, noteIndex |-> n, duration |-> duration])]

\* Sequencer.previewNote(voice, noteIndex)
previewNote(v, n) ==
    /\ activeOsc' = playNote(activeOsc, v, n, PreviewMicros)
    /\ liveNodes' = nodesAfterPlay(liveNodes, activeOsc, v, n, PreviewMicros)

\* -------------------------------------------------- Sequencer pure helpers
\* The backward scan of isNoteContinuation, from column c down to 0: the
\* first note-start met decides the answer.
RECURSIVE ContinuationScan(_, _, _, _, _)
ContinuationScan(g, v, n, col, c) ==
    IF c < 0 THEN FALSE
    ELSE IF g[v][n][c] > 0 THEN c + g[v][n][c] > col
    ELSE ContinuationScan(g, v, n, col, c - 1)

isNoteContinuation(g, v, n, col) == ContinuationScan(g, v, n, col, col - 1)

\* The backward scan of deleteNoteAt: the first note-start that reaches col
\* is removed; note-starts that end before col are passed over.
RECURSIVE DeleteScan(_, _, _, _, _)
DeleteScan(g, v, n, col, c) ==
    IF c < 0 THEN g
    ELSE IF g[v][n][c] > 0 /\ c + g[v][n][c] > col THEN SetAt(g, v, n, c, 0)
    ELSE DeleteScan(g, v, n, col, c - 1)

deleteNoteAt_nearest(g, v, n, col) ==
    IF g[v][n][col] > 0 THEN SetAt(g, v, n, col, 0)
    ELSE IF \E c \in 0 .. col - 1 : g[v][n][c] > 0
    THEN SetAt(g, v, n, CHOOSE c \in 0 .. col - 1 :
                           g[v][n][c] > 0 /\ \A d \in c + 1 .. col - 1 : g[v][n][d] = 0, 0)
    ELSE g

deleteNoteAt(g, v, n, col) ==
    IF g[v][n][col] > 0 THEN SetAt(g, v, n, col, 0)
    ELSE DeleteScan(g, v, n, col, col - 1)

isInSelection(sel, v, n, c) ==
    /\ sel # NoSelection
    /\ v = sel.voice
    /\ n >= sel.startNote /\ n <= sel.endNote
    /\ c >= sel.startCol /\ c <= sel.endCol

\* The length the note being drawn gets when the pointer reaches column col.
dragLength(col, startCol) == Max(1, col - startCol + 1)

\* ------------------------------------------------------- pointer handlers
\* Gestures are sequential: a pointer-down opens a gesture and the pointer-up
\* closes it; keyboard shortcuts, the context menu and programmatic calls
\* arrive between gestures.
Idle == ~isDrawing /\ ~isSelecting

DrawUnchanged == UNCHANGED <<isDrawing, isRapidMode, drawStart, drawLastCol, drawLastCell>>
SelUnchanged  == UNCHANGED <<selection, isSelecting, selectionStart>>
EditFrame     == UNCHANGED <<transportVars, currentStep, exportVars, appVars, engineVars>>

\* startSelection(voice, noteIndex, col)
startSelection(v, n, c) ==
    /\ isSelecting' = TRUE
    /\ selectionStart' = [voice |-> v, noteIndex |-> n, col |-> c]
    /\ selection' = [voice |-> v, startNote |-> n, endNote |-> n, startCol |-> c, endCol |-> c]

\* handlePointerDown on a grid cell; isShift stands for (isShift || mobileSelectMode)
handlePointerDown(v, n, c, isShift, isCtrl) ==
    /\ Idle
    /\ EditFrame
    /\ UNCHANGED clipboard
    /\ IF isShift
       THEN /\ startSelection(v, n, c)
            /\ lastEdit' = Edit("pointerDown.select", v, n, c, 0)
            /\ UNCHANGED <<grid, activeOsc, liveNodes>>
            /\ DrawUnchanged
       ELSE IF isInSelection(selection, v, n, c)
       THEN /\ lastEdit' = Edit("pointerDown.inSelection", v, n, c, 0)
            /\ UNCHANGED <<grid, activeOsc, liveNodes>>
            /\ DrawUnchanged
            /\ SelUnchanged
       ELSE /\ selection' = NoSelection
            /\ selectionStart' = NoCell
            /\ UNCHANGED isSelecting
            /\ IF grid[v][n][c] > 0 \/ isNoteContinuation(grid, v, n, c)
               THEN /\ grid' = deleteNoteAt(grid, v, n, c)
                    /\ lastEdit' = Edit("pointerDown.delete", v, n, c, 0)
                    /\ UNCHANGED <<activeOsc, liveNodes>>
                    /\ DrawUnchanged
               ELSE /\ NoteCount(grid) < MaxNotes
                    /\ isDrawing' = TRUE
                    /\ isRapidMode' = isCtrl
                    /\ drawStart' = [voice |-> v, noteIndex |-> n, col |-> c]
                    /\ drawLastCol' = c
                    /\ UNCHANGED drawLastCell
                    /\ grid' = SetAt(grid, v, n, c, 1)
                    /\ lastEdit' = Edit("pointerDown.place", v, n, c, 1)
                    /\ previewNote(v, n)

\* extendSelection(noteIndex, col)
extendSelection(n, c) ==
    IF selection = NoSelection \/ selectionStart = NoCell
    THEN UNCHANGED <<selection, selectionStart>>
    ELSE /\ selection' = [selection EXCEPT
                            !.startNote = Min(selectionStart.noteIndex, n),
                            !.endNote   = Max(selectionStart.noteIndex, n),
                            !.startCol  = Min(selectionStart.col, c),
                            !.endCol    = Max(selectionStart.col, c)]
         /\ UNCHANGED selectionStart

\* handlePointerMove over a grid cell
handlePointerMove(v, n, c) ==
    /\ isDrawing \/ isSelecting
    /\ EditFrame
    /\ UNCHANGED <<clipboard, isSelecting, isDrawing, isRapidMode, drawStart>>
    /\ IF isSelecting
       THEN /\ extendSelection(n, c)
            /\ lastEdit' = Edit("pointerMove.select", v, n, c, 0)
            /\ UNCHANGED <<grid, drawLastCol, drawLastCell, activeOsc, liveNodes>>
       ELSE IF isDrawing /\ drawStart # NoCell
       THEN /\ UNCHANGED <<selection, selectionStart>>
            /\ IF isRapidMode
               THEN /\ UNCHANGED drawLastCol
                    /\ <<n, c>> # drawLastCell
                    /\ drawLastCell' = <<n, c>>
                    /\ lastEdit' = Edit("pointerMove.rapid", v, n, c, 1)
                    /\ IF grid[v][n][c] = 0 /\ ~isNoteContinuation(grid, v, n, c)
                       THEN /\ NoteCount(grid) < MaxNotes
                            /\ grid' = SetAt(grid, v, n, c, 1)
                            /\ previewNote(v, n)
                       ELSE UNCHANGED <<grid, activeOsc, liveNodes>>
               ELSE /\ UNCHANGED <<drawLastCell, activeOsc, liveNodes>>
                    /\ c # drawLastCol
                    /\ drawLastCol' = c
                    /\ LET newLength == dragLength(c, drawStart.col)
                           cur       == grid[drawStart.voice][drawStart.noteIndex][drawStart.col]
                           oldLength == IF cur > 0 THEN cur ELSE 1
                       IN  /\ lastEdit' = Edit("pointerMove.extend", drawStart.voice,
                                               drawStart.noteIndex, drawStart.col, newLength)
                           /\ IF newLength # oldLength
                              THEN grid' = SetAt(grid, drawStart.voice, drawStart.noteIndex,
                                                 drawStart.col, newLength)
                              ELSE UNCHANGED grid
       ELSE FALSE

\* handlePointerUp
handlePointerUp ==
    /\ isSelecting \/ isDrawing
    /\ isSelecting' = FALSE
    /\ isDrawing' = FALSE
    /\ isRapidMode' = FALSE
    /\ drawStart' = NoCell
    /\ drawLastCol' = -1
    /\ drawLastCell' = NoKey
    /\ lastEdit' = Edit("pointerUp", -1, -1, -1, 0)
    /\ UNCHANGED <<grid, selection, selectionStart, clipboard, activeOsc, liveNodes>>
    /\ EditFrame

\* setCell(voice, noteIndex, col, length)
setCell(v, n, c, length) ==
    /\ Idle
    /\ NoteCount(SetAt(grid, v, n, c, length)) <= MaxNotes
    /\ grid' = SetAt(grid, v, n, c, length)
    /\ previewNote(v, n)
    /\ lastEdit' = Edit("setCell", v, n, c, length)
    /\ DrawUnchanged /\ SelUnchanged /\ UNCHANGED clipboard
    /\ EditFrame

\* the contextmenu handler without a selection: deleteNoteAt(voice, noteIndex, col)
contextDelete(v, n, c) ==
    /\ Idle
    /\ selection = NoSelection
    /\ grid' = deleteNoteAt(grid, v, n, c)
    /\ lastEdit' = Edit("deleteNoteAt", v, n, c, 0)
    /\ DrawUnchanged /\ SelUnchanged /\ UNCHANGED <<clipboard, activeOsc, liveNodes>>
    /\ EditFrame

\* ------------------------------------------- calls with any integers
\* this.grid[voice][noteIndex] is a row array only for a voice and a pitch
\* row of the grid; for any other index the expression meets undefined and
\* the access to [col] raises a TypeError.
laneExists(v, n) == v \in Voices /\ n \in Rows

Threw(op, v, n, c, len) ==
    /\ lastEdit' = [Edit(op, v, n, c, len) EXCEPT !.threw = TRUE]
    /\ UNCHANGED <<grid, activeOsc, liveNodes>>

\* setCell(voice, noteIndex, col, length) with any integers: the assignment
\* throws before anything is written when the lane does not exist; a column
\* outside [0, cols) becomes an extra element of the row array, which no
\* reader of the grid visits, and the preview still plays.
callSetCell(v, n, c, length) ==
    IF laneExists(v, n) /\ c \in Cols THEN setCell(v, n, c, length)
    ELSE /\ Idle
         /\ DrawUnchanged /\ SelUnchanged /\ UNCHANGED clipboard /\ EditFrame
         /\ IF ~laneExists(v, n) THEN Threw("setCell", v, n, c, length)
            ELSE /\ UNCHANGED grid
                 /\ previewNote(v, n)
                 /\ lastEdit' = Edit("setCell", v, n, c, length)

\* deleteNoteAt(voice, noteIndex, col) with any integers: the first read
\* throws when the lane does not exist; a column outside [0, cols) reads
\* undefined and the backward scan runs from col - 1.
callDeleteNoteAt(v, n, c) ==
    /\ Idle
    /\ DrawUnchanged /\ SelUnchanged /\ UNCHANGED clipboard /\ EditFrame
    /\ IF ~laneExists(v, n) THEN Threw("deleteNoteAt", v, n, c, 0)
       ELSE /\ grid' = IF c \in Cols THEN deleteNoteAt(grid, v, n, c)
                       ELSE DeleteScan(grid, v, n, c, Min(c, NumCols) - 1)
            /\ lastEdit' = Edit("deleteNoteAt", v, n, c, 0)
            /\ UNCHANGED <<activeOsc, liveNodes>>

\* clearCell(voice, noteIndex, col) with any integers
clearCell(v, n, c) ==
    /\ Idle
    /\ DrawUnchanged /\ SelUnchanged /\ UNCHANGED clipboard /\ EditFrame
    /\ IF ~laneExists(v, n) THEN Threw("clearCell", v, n, c, 0)
       ELSE /\ grid' = IF c \in Cols THEN SetAt(grid, v, n, c, 0) ELSE grid
            /\ lastEdit' = Edit("clearCell", v, n, c, 0)
            /\ UNCHANGED <<activeOsc, liveNodes>>

\* ------------------------------------------------------ selection edits
\* the note-starts inside the selection, as moveSelection and
\* transposeSelection collect them (activeNotes)
activeNotes(g, sel) ==
    {x \in Rows \X Cols : isInSelection(sel, sel.voice, x[1], x[2]) /\ g[sel.voice][x[1]][x[2]] > 0}

\* clear the old positions of the collected notes, then write each note
\* with its length at its position shifted by (dn, dc)
shiftNotes(g, v, notes, dn, dc) ==
    [g EXCEPT ![v] =
        [n \in Rows |-> [c \in Cols |->
            IF <<n - dn, c - dc>> \in notes THEN g[v][n - dn][c - dc]
            ELSE IF <<n, c>> \in notes THEN 0
            ELSE g[v][n][c]]]]

SelectionEditFrame ==
    /\ DrawUnchanged
    /\ UNCHANGED <<isSelecting, selectionStart, clipboard, activeOsc, liveNodes>>
    /\ EditFrame

\* the ArrowUp / ArrowDown keys with a selection: transposeSelection(direction)
transposeSelection(direction) ==
    /\ Idle
    /\ selection # NoSelection
    /\ SelectionEditFrame
    /\ IF \/ direction < 0 /\ selection.startNote <= 0
          \/ direction > 0 /\ selection.endNote >= NumRows - 1
       THEN /\ lastEdit' = Edit("transposeSelection", selection.voice, direction, 0, 0)
            /\ UNCHANGED <<grid, selection>>
       ELSE LET notes == activeNotes(grid, selection)
            IN  /\ grid' = shiftNotes(grid, selection.voice, notes, direction, 0)
                /\ selection' = [selection EXCEPT !.startNote = @ + direction,
                                                   !.endNote = @ + direction]
                /\ lastEdit' = Edit("transposeSelection", selection.voice, direction, 0,
                                    Cardinality(notes))

\* the ArrowLeft / ArrowRight keys with a selection: moveSelection(direction)
moveSelection(direction) ==
    /\ Idle
    /\ selection # NoSelection
    /\ SelectionEditFrame
    /\ IF \/ direction < 0 /\ selection.startCol <= 0
          \/ direction > 0 /\ selection.endCol >= NumCols - 1
       THEN /\ lastEdit' = Edit("moveSelection", selection.voice, 0, direction, 0)
            /\ UNCHANGED <<grid, selection>>
       ELSE LET notes == activeNotes(grid, selection)
            IN  /\ grid' = shiftNotes(grid, selection.voice, notes, 0, direction)
                /\ selection' = [selection EXCEPT !.startCol = @ + direction,
                                                   !.endCol = @ + direction]
                /\ lastEdit' = Edit("moveSelection", selection.voice, 0, direction,
                                    Cardinality(notes))

\* ------------------------------------------------------------ clipboard
\* the notes array copySelection builds: the selection's cells row by row,
\* each note-start kept with its offsets from the selection's corner
copiedNotes(g, sel) ==
    LET width  == sel.endCol - sel.startCol + 1
        height == sel.endNote - sel.startNote + 1
        cellAt(k) == [noteOffset |-> (k - 1) \div width,
                      colOffset  |-> (k - 1) % width,
                      length     |-> g[sel.voice][sel.startNote + ((k - 1) \div width)]
                                                 [sel.startCol + ((k - 1) % width)]]
        hasLength(x) == x.length > 0
    IN  IF width <= 0 \/ height <= 0 THEN <<>>
        ELSE SelectSeq([k \in 1 .. width * height |-> cellAt(k)], hasLength)

\* Ctrl+C with a selection: copySelection()
copySelection ==
    /\ Idle
    /\ selection # NoSelection
    /\ clipboard' = [present |-> TRUE,
                     notes   |-> copiedNotes(grid, selection),
                     width   |-> selection.endCol - selection.startCol + 1,
                     height  |-> selection.endNote - selection.startNote + 1]
    /\ lastEdit' = Edit("copySelection", selection.voice, selection.startNote,
                        selection.startCol, Len(copiedNotes(grid, selection)))
    /\ DrawUnchanged /\ SelUnchanged /\ UNCHANGED <<grid, activeOsc, liveNodes>>
    /\ EditFrame

\* the loop of pasteClipboard: each clipboard note whose cell is inside the
\* grid is written there with its length; the others are passed over
pasteNotes_rejectAll(g, v, startNote, startCol, notes) ==
    IF \E i \in 1 .. Len(notes) : \/ startNote + notes[i].noteOffset \notin Rows
                                  \/ startCol + notes[i].colOffset \notin Cols
    THEN g
    ELSE [g EXCEPT ![v] =
            [n \in Rows |-> [c \in Cols |->
                IF \E i \in 1 .. Len(notes) : /\ startNote + notes[i].noteOffset = n
                                              /\ startCol + notes[i].colOffset = c
                THEN (CHOOSE x \in {notes[i] : i \in 1 .. Len(notes)} :
                          startNote + x.noteOffset = n /\ startCol + x.colOffset = c).length
                ELSE g[v][n][c]]]]

\* a paste that adds the clipboard note's length to what the cell holds
pasteNotes_additive(g, v, startNote, startCol, notes) ==
    [g EXCEPT ![v] =
        [n \in Rows |-> [c \in Cols |->
            IF \E i \in 1 .. Len(notes) : /\ startNote + notes[i].noteOffset = n
                                          /\ startCol + notes[i].colOffset = c
            THEN g[v][n][c] +
                 (CHOOSE x \in {notes[i] : i \in 1 .. Len(notes)} :
                      startNote + x.noteOffset = n /\ startCol + x.colOffset = c).length
            ELSE g[v][n][c]]]]

pasteNotes(g, v, startNote, startCol, notes) ==
    [g EXCEPT ![v] =
        [n \in Rows |-> [c \in Cols |->
            IF \E i \in 1 .. Len(notes) : /\ startNote + notes[i].noteOffset = n
                                          /\ startCol + notes[i].colOffset = c
            THEN (CHOOSE x \in {notes[i] : i \in 1 .. Len(notes)} :
                      startNote + x.noteOffset = n /\ startCol + x.colOffset = c).length
            ELSE g[v][n][c]]]]

\* Ctrl+V with a clipboard: pasteClipboard()
pasteClipboard ==
    /\ Idle
    /\ clipboard.present
    /\ IF selection = NoSelection
       THEN /\ lastEdit' = Edit("pasteClipboard", -1, -1, -1, 0)
            /\ UNCHANGED grid
       ELSE /\ grid' = pasteNotes(grid, selection.voice, selection.startNote,
                                  selection.startCol, clipboard.notes)
            /\ lastEdit' = Edit("pasteClipboard", selection.voice, selection.startNote,
                                selection.startCol, Len(clipboard.notes))
    /\ DrawUnchanged /\ SelUnchanged /\ UNCHANGED <<clipboard, activeOsc, liveNodes>>
    /\ EditFrame

\* the loop of duplicateSelection: each note-start inside the selection is
\* written again at targetCol + (c - startCol) when that column is below cols
duplicateNotes(g, sel) ==
    LET targetCol == sel.endCol + 1
    IN  [g EXCEPT ![sel.voice] =
            [n \in Rows |-> [c \in Cols |->
                LET from == c - targetCol + sel.startCol
                IN  IF <<n, from>> \in activeNotes(g, sel)
                    THEN g[sel.voice][n][from]
                    ELSE g[sel.voice][n][c]]]]

\* Ctrl+D with a selection: duplicateSelection()
duplicateSelection ==
    /\ Idle
    /\ selection # NoSelection
    /\ grid' = duplicateNotes(grid, selection)
    /\ LET width     == selection.endCol - selection.startCol + 1
           targetCol == selection.endCol + 1
       IN  selection' = [selection EXCEPT
                            !.startCol = targetCol,
                            !.endCol   = Min(targetCol + width - 1, NumCols - 1)]
    /\ lastEdit' = Edit("duplicateSelection", selection.voice, 0,
                        selection.endCol + 1 - selection.startCol,
                        Cardinality(activeNotes(grid, selection)))
    /\ SelectionEditFrame

\* Delete / Backspace with a selection: deleteSelection()
deleteSelection ==
    /\ Idle
    /\ selection # NoSelection
    /\ grid' = [grid EXCEPT ![selection.voice] =
                   [n \in Rows |-> [c \in Cols |->
                       IF isInSelection(selection, selection.voice, n, c) THEN 0
                       ELSE grid[selection.voice][n][c]]]]
    /\ lastEdit' = Edit("deleteSelection", selection.voice, -1, -1, 0)
    /\ DrawUnchanged /\ SelUnchanged /\ UNCHANGED <<clipboard, activeOsc, liveNodes>>
    /\ EditFrame

\* ------------------------------------------------------------- Transport
BeatsPerBar        == 16        \* a bar is 16 sixteenth notes
ScheduleAheadTime  == 100000    \* Transport.scheduleAheadTime, 0.1 s
LookAhead          == 25000     \* Transport.lookAhead, the tick period, 25 ms
MaxTicks           == 5         \* the audio clock runs for MaxTicks tick periods
MaxTimers          == 2         \* cap on the beat callbacks queued at one time
MaxLoopTicks       == 200       \* length of an uninterrupted playback, in tick periods
MaxLag             == 2         \* lateness of tick and callbacks in uninterrupted playback

\* 60.0 / bpm / 4, the length of a sixteenth note
secondsPerBeat(b) == 15000000 \div b

loopStartBeat == (loopStart - 1) * BeatsPerBar
loopEndBeat   == loopEnd * BeatsPerBar

\* What a transport operation did: its name, whether the transport was
\* Playing when it was called, the beats it scheduled (scheduler) or
\* delivered (onBeat), the beat scheduled last before it, and for a
\* delivered beat the absolute time it was scheduled for.
\* onStop counts the calls of the onStop callback, retired the
\* oscillator/envelope pairs that the playNote calls of a delivered beat
\* retired, and tempo is the bpm
\* in force when the operation ran (for a delivered beat: when the beat was
\* scheduled); arg is the argument of a setter.
TrAt(op, beats, time) ==
    [op |-> op, wasPlaying |-> isPlaying, beats |-> beats, prev |-> lastScheduled,
     time |-> time, onStop |-> 0, retired |-> 0, tempo |-> bpm, arg |-> 0,
     calls |-> <<>>]

Tr(op, beats) == TrAt(op, beats, -1)

TransportFrame == UNCHANGED <<gridVars, exportVars, appVars, engineVars>>

\* setInterval hands out a handle that is not in use
FreshHandle == CHOOSE h \in 1 .. Cardinality(liveIntervals) + 1 : h \notin liveIntervals

\* play() without its isPlaying guard: it restarts a transport that is Playing
play_restart ==
    /\ lastTransport' = Tr("play", <<>>)
    /\ isPlaying' = TRUE
    /\ lastScheduled' = -1
    /\ currentBeat' = loopStartBeat
    /\ nextBeatTime' = now
    /\ schedulerInterval' = FreshHandle
    /\ liveIntervals' = liveIntervals \cup {FreshHandle}
    /\ UNCHANGED <<bpm, stateBpm, loopStart, loopEnd, timers, now, activeOsc, liveNodes, currentStep,
                   stoppedAt>>
    /\ TransportFrame

\* Transport.play()
play ==
    /\ lastTransport' = Tr("play", <<>>)
    /\ IF isPlaying
       THEN UNCHANGED <<isPlaying, currentBeat, nextBeatTime, schedulerInterval, liveIntervals,
                        lastScheduled>>
       ELSE /\ isPlaying' = TRUE
            /\ lastScheduled' = -1
            /\ currentBeat' = loopStartBeat
            /\ nextBeatTime' = now
            /\ schedulerInterval' = FreshHandle
            /\ liveIntervals' = liveIntervals \cup {FreshHandle}
    /\ UNCHANGED <<bpm, stateBpm, loopStart, loopEnd, timers, now, activeOsc, liveNodes, currentStep,
                   stoppedAt>>
    /\ TransportFrame

\* stop() that leaves the beat counter where playback had got to
stop_noReset ==
    /\ lastTransport' = [Tr("stop", <<>>) EXCEPT !.onStop = IF isPlaying THEN 1 ELSE 0]
    /\ IF ~isPlaying
       THEN UNCHANGED <<isPlaying, schedulerInterval, liveIntervals, activeOsc, liveNodes, stoppedAt>>
       ELSE /\ isPlaying' = FALSE
            /\ stoppedAt' = now
            /\ schedulerInterval' = 0
            /\ liveIntervals' = liveIntervals \ {schedulerInterval}
            /\ activeOsc' = stopAll(activeOsc)
            /\ liveNodes' = stopAllNodes(liveNodes, activeOsc)
    /\ UNCHANGED <<bpm, stateBpm, loopStart, loopEnd, nextBeatTime, timers, now, currentStep,
                   lastScheduled, currentBeat>>
    /\ TransportFrame

\* stop() that forgets the tick: no clearInterval, the handle is only dropped
stop_keepTick ==
    /\ lastTransport' = [Tr("stop", <<>>) EXCEPT !.onStop = IF isPlaying THEN 1 ELSE 0]
    /\ IF ~isPlaying
       THEN UNCHANGED <<isPlaying, currentBeat, schedulerInterval, liveIntervals, activeOsc, liveNodes,
                        stoppedAt>>
       ELSE /\ isPlaying' = FALSE
            /\ stoppedAt' = now
            /\ schedulerInterval' = 0
            /\ liveIntervals' = liveIntervals
            /\ activeOsc' = stopAll(activeOsc)
            /\ liveNodes' = stopAllNodes(liveNodes, activeOsc)
            /\ currentBeat' = loopStartBeat
    /\ UNCHANGED <<bpm, stateBpm, loopStart, loopEnd, nextBeatTime, timers, now, currentStep,
                   lastScheduled>>
    /\ TransportFrame

\* Transport.stop(), with SIDEngine.stopAll() and Sequencer.onStop()
stop ==
    /\ lastTransport' = [Tr("stop", <<>>) EXCEPT !.onStop = IF isPlaying THEN 1 ELSE 0]
    /\ IF ~isPlaying
       THEN UNCHANGED <<isPlaying, currentBeat, schedulerInterval, liveIntervals, activeOsc, liveNodes,
                        stoppedAt>>
       ELSE /\ isPlaying' = FALSE
            /\ stoppedAt' = now
            /\ schedulerInterval' = 0
            /\ liveIntervals' = liveIntervals \ {schedulerInterval}
            /\ activeOsc' = stopAll(activeOsc)
            /\ liveNodes' = stopAllNodes(liveNodes, activeOsc)
            /\ currentBeat' = loopStartBeat
    /\ UNCHANGED <<bpm, stateBpm, loopStart, loopEnd, nextBeatTime, timers, now, currentStep,
                   lastScheduled>>
    /\ TransportFrame

\* advanceBeat() that wraps one beat late, so that beat loopEnd * 16 is played
advanceBeat_wrapLate(cb) ==
    IF cb + 1 > loopEndBeat THEN loopStartBeat ELSE cb + 1

\* advanceBeat() that leaves the beat counter where it is
advanceBeat_stuck(cb) == cb

\* Transport.advanceBeat(): the beat counter after the beat cb
advanceBeat(cb) ==
    IF cb + 1 >= loopEndBeat THEN loopStartBeat ELSE cb + 1

\* scheduleBeat that queues the callback of a beat twice
scheduleBeat_twice(tms, beat, time) ==
    Append(Append(tms, [beat |-> beat, time |-> time, due |-> now + Max(0, time - now),
                        tempo |-> bpm]),
           [beat |-> beat, time |-> time, due |-> now + Max(0, time - now), tempo |-> bpm])

\* Transport.scheduleBeat(beat, time): the callback is queued for
\* max(0, time - currentTime) from now and nothing keeps its handle; tempo
\* remembers the bpm in force at the call
scheduleBeat(tms, beat, time) ==
    Append(tms, [beat |-> beat, time |-> time, due |-> now + Max(0, time - now),
                 tempo |-> bpm])

\* Transport.scheduler(): the while loop of one tick
RECURSIVE schedulerLoop(_, _, _, _)
schedulerLoop(cb, nbt, tms, beats) ==
    IF nbt < now + ScheduleAheadTime
    THEN schedulerLoop(advanceBeat(cb), nbt + secondsPerBeat(bpm),
                       scheduleBeat(tms, cb, nbt), Append(beats, cb))
    ELSE [currentBeat |-> cb, nextBeatTime |-> nbt, timers |-> tms, beats |-> beats]

\* one firing of the setInterval tick armed by play()
scheduler ==
    /\ liveIntervals # {}
    /\ LET r == schedulerLoop(currentBeat, nextBeatTime, timers, <<>>)
       IN  /\ currentBeat' = r.currentBeat
           /\ nextBeatTime' = r.nextBeatTime
           /\ timers' = r.timers
           /\ Len(r.timers) <= MaxTimers
           /\ lastTransport' = Tr("scheduler", r.beats)
           /\ lastScheduled' = IF r.beats = <<>> THEN lastScheduled ELSE r.beats[Len(r.beats)]
    /\ UNCHANGED <<isPlaying, bpm, stateBpm, loopStart, loopEnd, schedulerInterval,
                   liveIntervals, now, activeOsc, liveNodes, currentStep, stoppedAt>>
    /\ TransportFrame

\* Sequencer.onBeat(beat): the loops over voice and noteIndex, pair k of
\* NumVoices * NumRows; a note-start at the step triggers its voice for
\* stepDuration * length * 0.95, with stepDuration = 60 / state.bpm / 4.
onBeatDuration(b, length) == (secondsPerBeat(b) * length * 95) \div 100

RECURSIVE onBeatLoop(_, _, _)
onBeatLoop(s, step, k) ==
    IF k >= NumVoices * NumRows THEN s
    ELSE LET v    == k \div NumRows
             n    == k % NumRows
             cell == grid[v][n][step]
         IN  onBeatLoop(IF cell > 0
                        THEN playNoteOn(s, v, n, onBeatDuration(stateBpm, cell))
                        ELSE s,
                        step, k + 1)

\* The queued callback the runtime runs next: the one due first, the one
\* queued first among those due at the same time.
NextTimer ==
    CHOOSE i \in 1 .. Len(timers) :
        \A j \in 1 .. Len(timers) :
            \/ timers[i].due < timers[j].due
            \/ timers[i].due = timers[j].due /\ i <= j

RemoveAt(s, i) == SubSeq(s, 1, i - 1) \o SubSeq(s, i + 1, Len(s))

\* a callback queued by scheduleBeat runs: this.onBeat(beat), i.e. Sequencer.onBeat
onBeat ==
    /\ timers # <<>>
    /\ timers[NextTimer].due <= now
    /\ LET t == timers[NextTimer]
           r == onBeatLoop([osc |-> activeOsc, nodes |-> liveNodes, retired |-> 0,
                            calls |-> <<>>],
                           t.beat % NumCols, 0)
       IN  /\ currentStep' = t.beat % NumCols
           /\ activeOsc' = r.osc
           /\ liveNodes' = r.nodes
           /\ lastTransport' = [TrAt("onBeat", <<t.beat>>, t.time) EXCEPT
                                   !.retired = r.retired, !.tempo = t.tempo,
                                   !.calls = r.calls]
    /\ timers' = RemoveAt(timers, NextTimer)
    /\ UNCHANGED <<isPlaying, bpm, stateBpm, currentBeat, loopStart, loopEnd, schedulerInterval,
                   liveIntervals, nextBeatTime, now, lastScheduled, stoppedAt>>
    /\ TransportFrame

\* the audio clock moves on by one tick period
advanceClock ==
    /\ now < MaxTicks * LookAhead
    /\ now' = now + LookAhead
    /\ lastTransport' = Tr("clock", <<>>)
    /\ UNCHANGED <<isPlaying, bpm, stateBpm, currentBeat, loopStart, loopEnd, schedulerInterval,
                   liveIntervals, nextBeatTime, timers, lastScheduled, stoppedAt, activeOsc, liveNodes, currentStep>>
    /\ TransportFrame

\* the audio clock during uninterrupted playback: the tick and the queued
\* callbacks run at most MaxLag tick periods late, and playback is started
\* within MaxLag tick periods
advanceClockSteady ==
    /\ now < MaxLoopTicks * LookAhead
    /\ ~isPlaying => now < MaxLag * LookAhead
    /\ isPlaying => nextBeatTime + MaxLag * LookAhead >= now + ScheduleAheadTime
    /\ \A i \in 1 .. Len(timers) : timers[i].due + MaxLag * LookAhead > now
    /\ now' = now + LookAhead
    /\ lastTransport' = Tr("clock", <<>>)
    /\ UNCHANGED <<isPlaying, bpm, stateBpm, currentBeat, loopStart, loopEnd, schedulerInterval,
                   liveIntervals, nextBeatTime, timers, lastScheduled, stoppedAt, activeOsc, liveNodes,
                   currentStep>>
    /\ TransportFrame

\* The audio clock in playback without end: it moves on by one tick period
\* under the lateness limits of advanceClockSteady. Every time the program
\* holds is read relative to the present, so that the present stays at now
\* and the stored times fall back by one tick period.
advanceClockRolling ==
    /\ isPlaying
    /\ nextBeatTime + MaxLag * LookAhead >= now + ScheduleAheadTime
    /\ \A i \in 1 .. Len(timers) : timers[i].due + MaxLag * LookAhead > now
    /\ nextBeatTime' = nextBeatTime - LookAhead
    /\ timers' = [i \in 1 .. Len(timers) |->
                     [timers[i] EXCEPT !.time = @ - LookAhead, !.due = @ - LookAhead]]
    /\ activeOsc' = [v \in Voices |->
                        IF activeOsc[v] = NoOsc THEN NoOsc
                        ELSE [activeOsc[v] EXCEPT !.start = @ - LookAhead]]
    /\ liveNodes' = [v \in Voices |-> {[x EXCEPT !.start = @ - LookAhead] : x \in liveNodes[v]}]
    /\ lastTransport' = Tr("clock", <<>>)
    /\ UNCHANGED <<now, isPlaying, bpm, stateBpm, currentBeat, loopStart, loopEnd,
                   schedulerInterval, liveIntervals, lastScheduled, stoppedAt, currentStep>>
    /\ TransportFrame

\* a clamp of the tempo that has no ceiling
clampBPM_noCeiling(x) == Max(60, x)

\* Transport.setBPM(bpm)
clampBPM(x) == Max(60, Min(200, x))

setBPM(x) ==
    /\ bpm' = clampBPM(x)
    /\ stateBpm' = clampBPM(x)
    /\ lastTransport' = [Tr("setBPM", <<>>) EXCEPT !.arg = x]
    /\ UNCHANGED <<isPlaying, currentBeat, loopStart, loopEnd, schedulerInterval, liveIntervals,
                   nextBeatTime, timers, now, lastScheduled, stoppedAt, activeOsc, liveNodes, currentStep>>
    /\ TransportFrame

\* setLoopStart that does not hold the start below the loop end
setLoopStart_unclamped(bar) ==
    /\ loopStart' = Max(1, bar)
    /\ lastTransport' = [Tr("setLoopStart", <<>>) EXCEPT !.arg = bar]
    /\ UNCHANGED <<isPlaying, bpm, stateBpm, currentBeat, loopEnd, schedulerInterval,
                   liveIntervals, nextBeatTime, timers, now, lastScheduled, stoppedAt, activeOsc,
                   liveNodes, currentStep>>
    /\ TransportFrame

\* Transport.setLoopStart(bar)
setLoopStart(bar) ==
    /\ loopStart' = Max(1, Min(bar, loopEnd - 1))
    /\ lastTransport' = [Tr("setLoopStart", <<>>) EXCEPT !.arg = bar]
    /\ UNCHANGED <<isPlaying, bpm, stateBpm, currentBeat, loopEnd, schedulerInterval,
                   liveIntervals, nextBeatTime, timers, now, lastScheduled, stoppedAt, activeOsc, liveNodes, currentStep>>
    /\ TransportFrame

\* Transport.setLoopEnd(bar)
MaxBar == 128

setLoopEnd(bar) ==
    /\ loopEnd' = Max(loopStart + 1, Min(bar, MaxBar))
    /\ lastTransport' = [Tr("setLoopEnd", <<>>) EXCEPT !.arg = bar]
    /\ UNCHANGED <<isPlaying, bpm, stateBpm, currentBeat, loopStart, schedulerInterval,
                   liveIntervals, nextBeatTime, timers, now, lastScheduled, stoppedAt, activeOsc, liveNodes, currentStep>>
    /\ TransportFrame

\* ----------------------------------------------- AudioExporter, ExportModal
MaxRenders == 2     \* cap on the render passes in flight at one time

ExportKinds == {"mp3", "wav"}
ExportVias  == {"modal", "exporter"}
EndOutcomes == {"done", "renderFailed", "encoderUnavailable"}

\* AudioExporter.bufferToWav(buffer): the fields of the 44-byte header as
\* the DataView stores them, and the length of the ArrayBuffer that becomes
\* the file. setUint16 keeps the low 16 bits; setUint32 keeps the low 32
\* bits, which is the whole value for every number below 2^31, and the
\* evaluation stops with an error at any number beyond that.
NoWav ==
    [frames |-> 0, numChannels |-> 0, sampleRate |-> 0, format |-> 0, bitDepth |-> 0,
     blockAlign |-> 0, byteRate |-> 0, dataSize |-> 0, riffSize |-> 0, fileLength |-> 0]

bufferToWav_riffTotal(buffer) ==
    LET blockAlign  == buffer.numberOfChannels * (16 \div 8)
        dataLength  == buffer.length * blockAlign
        totalLength == 44 + dataLength
    IN  [frames      |-> buffer.length,
         numChannels |-> buffer.numberOfChannels % 65536,
         sampleRate  |-> buffer.sampleRate,
         format      |-> 1,
         bitDepth    |-> 16,
         blockAlign  |-> blockAlign % 65536,
         byteRate    |-> buffer.sampleRate * blockAlign,
         dataSize    |-> dataLength,
         riffSize    |-> totalLength,
         fileLength  |-> totalLength]

bufferToWav(buffer) ==
    LET bytesPerSample == 16 \div 8
        blockAlign     == buffer.numberOfChannels * bytesPerSample
        dataLength     == buffer.length * blockAlign
        headerLength   == 44
        totalLength    == headerLength + dataLength
    IN  [frames      |-> buffer.length,
         numChannels |-> buffer.numberOfChannels % 65536,
         sampleRate  |-> buffer.sampleRate,
         format      |-> 1,
         bitDepth    |-> 16,
         blockAlign  |-> blockAlign % 65536,
         byteRate    |-> buffer.sampleRate * blockAlign,
         dataSize    |-> dataLength,
         riffSize    |-> totalLength - 8,
         fileLength  |-> totalLength]

\* the buffer renderToBuffer's OfflineAudioContext delivers at tempo b: two
\* channels at 44100 Hz, 64 steps and one second of release long
renderedBuffer(b) ==
    [length           |-> (44100 * ((64 * secondsPerBeat(b) + 1000000) \div 1000)) \div 1000,
     numberOfChannels |-> 2,
     sampleRate       |-> 44100]

\* What an export step did: a request (the synchronous part of exportMP3 /
\* exportWAV up to the await) or the completion of a render pass; busy says
\* whether a render pass was in flight when the step began, prev is the
\* outcome of the step before, wav the header of the WAV file it produced.
Ex(op, kind, via, outcome) ==
    [op |-> op, kind |-> kind, via |-> via, outcome |-> outcome,
     busy |-> rendering # <<>>, prev |-> lastExport.outcome, before |-> currentProject,
     wav |-> NoWav]

\* ProjectManager.createNew(): the project has a grid array and a voices
\* array of its own and bpm 120
createNew == [grid |-> "created", voices |-> "created", bpm |-> 120]

\* ExportModal.getProjectData(): the current project object itself gets the
\* Sequencer's grid array, a voices array read from the engine and state.bpm
getProjectData(project) ==
    [project EXCEPT !.grid = "sequencer", !.voices = "engine", !.bpm = stateBpm]

\* the note grid a project's grid field holds
projectGrid(project) == IF project.grid = "sequencer" THEN grid ELSE EmptyGrid

\* AudioExporter.renderToBuffer: noteDuration = noteLength * secondsPerBeat
renderDuration(b, length) == length * secondsPerBeat(b)

\* AudioExporter.renderToBuffer and scheduleNote: every note-start of the
\* project's grid gets an oscillator that starts at step * secondsPerBeat
\* and holds its sustain level until releaseStart = startTime + duration
renderToBuffer(g, b) ==
    {[voice |-> x[1], noteIndex |-> x[2], step |-> x[3], length |-> g[x[1]][x[2]][x[3]],
      start |-> x[3] * secondsPerBeat(b),
      releaseStart |-> x[3] * secondsPerBeat(b) + renderDuration(b, g[x[1]][x[2]][x[3]])] :
        x \in {y \in Voices \X Rows \X Cols : g[y[1]][y[2]][y[3]] > 0}}

ExportFrame == UNCHANGED <<gridVars, transportVars, voiceVars, appVars, engineVars>>

\* AudioExporter.exportMP3 / exportWAV refuse without the guard
exporterBusy_never(flag) == FALSE

\* the guard of AudioExporter.exportMP3 / exportWAV: if (this.isExporting) throw
exporterBusy(flag) == flag

\* a finally block that clears the flag only after a successful export
flagAfter_successOnly(flag, outcome) == IF outcome = "done" THEN FALSE ELSE flag

\* the finally blocks of exportMP3 / exportWAV: this.isExporting = false,
\* whatever the outcome of the try block
flagAfter(flag, outcome) == FALSE

\* The synchronous part of an export request.  Through the modal
\* (ExportModal.exportMP3 / exportWAV): return if the modal is exporting,
\* else set its flag and call the exporter; the exporter throws if it is
\* exporting, else sets its flag and starts renderToBuffer, which either
\* fails before its await (syncFail) or leaves a render pass in flight.
\* A throw runs the exporter's finally only when it comes from inside its
\* try block, and always runs the modal's catch and finally.
requestExport(kind, via, syncFail) ==
    /\ Len(rendering) < MaxRenders
    /\ UNCHANGED lamejsLoaded
    /\ ExportFrame
    /\ IF via = "modal" /\ modalIsExporting
       THEN /\ lastExport' = Ex("request", kind, via, "ignored")
            /\ UNCHANGED <<exporterIsExporting, modalIsExporting, rendering, currentProject>>
       ELSE LET project == IF via = "modal" THEN getProjectData(currentProject)
                           ELSE currentProject
            IN
            /\ currentProject' = project
            /\ IF exporterBusy(exporterIsExporting)
               THEN /\ lastExport' = Ex("request", kind, via, "rejected")
                    /\ modalIsExporting' = IF via = "modal"
                                           THEN flagAfter(TRUE, "rejected") ELSE modalIsExporting
                    /\ UNCHANGED <<exporterIsExporting, rendering>>
               ELSE IF syncFail
               THEN /\ lastExport' = Ex("request", kind, via, "renderFailed")
                    /\ exporterIsExporting' = flagAfter(TRUE, "renderFailed")
                    /\ modalIsExporting' = IF via = "modal"
                                           THEN flagAfter(TRUE, "renderFailed")
                                           ELSE modalIsExporting
                    /\ UNCHANGED rendering
               ELSE /\ lastExport' = Ex("request", kind, via, "started")
                    /\ exporterIsExporting' = TRUE
                    /\ modalIsExporting' = IF via = "modal" THEN TRUE ELSE modalIsExporting
                    /\ rendering' = Append(rendering,
                                           [kind |-> kind, via |-> via,
                                            tempo |-> project.bpm,
                                            notes |-> renderToBuffer(projectGrid(project),
                                                                     project.bpm),
                                            before |-> currentProject])

\* what the rest of exportMP3 / exportWAV makes of a settled render pass
exportOutcome(kind, rendered) ==
    IF ~rendered THEN "renderFailed"
    ELSE IF kind = "mp3" /\ ~lamejsLoaded THEN "encoderUnavailable"
    ELSE "done"

\* The render pass i settles (rendered or failed) and the export that
\* awaited it runs to its end: encode, download, the finally blocks.
completeExport(i, rendered) ==
    /\ i \in 1 .. Len(rendering)
    /\ UNCHANGED <<lamejsLoaded, currentProject>>
    /\ ExportFrame
    /\ LET r   == rendering[i]
           out == exportOutcome(r.kind, rendered)
       IN  /\ lastExport' = [Ex("complete", r.kind, r.via, out) EXCEPT
                                !.before = r.before,
                                !.wav = IF r.kind = "wav" /\ out = "done"
                                        THEN bufferToWav(renderedBuffer(r.tempo))
                                        ELSE NoWav]
           /\ exporterIsExporting' = flagAfter(exporterIsExporting, out)
           /\ modalIsExporting' = IF r.via = "modal"
                                  THEN flagAfter(modalIsExporting, out) ELSE modalIsExporting
    /\ rendering' = SubSeq(rendering, 1, i - 1) \o SubSeq(rendering, i + 1, Len(rendering))

\* bufferToWav applied to a buffer of any length, channel count and rate
encodeWav(buffer) ==
    /\ lastExport' = [Ex("bufferToWav", "wav", "exporter", "done") EXCEPT
                         !.wav = bufferToWav(buffer)]
    /\ UNCHANGED <<exporterIsExporting, modalIsExporting, rendering, lamejsLoaded,
                   currentProject>>
    /\ ExportFrame

\* -------------------------------------------------------- ADSR envelope
\* SIDVoice.params as constructed: attack 0.01 s, decay 0.1 s, sustain 0.7,
\* release 0.2 s
DefaultParams == [attack |-> 10000, decay |-> 100000, sustain |-> 70, release |-> 200000]

NoEnvelope == [op |-> "none", voice |-> -1, params |-> DefaultParams, peak |-> 0,
               start |-> 0, duration |-> 0, events |-> <<>>]

\* An AudioParam keeps its automation events ordered by time; an event goes
\* behind the events of the same time that are there already.
insertEvent(tl, e) ==
    LET notLater(x) == x.time <= e.time
        later(x)    == x.time > e.time
    IN  SelectSeq(tl, notLater) \o <<e>> \o SelectSeq(tl, later)

RECURSIVE timeline(_)
timeline(calls) ==
    IF calls = <<>> THEN <<>>
    ELSE insertEvent(timeline(SubSeq(calls, 1, Len(calls) - 1)), calls[Len(calls)])

\* The value of the gain at time t, in thousandths: the value of the last
\* event at or before t, on the way to the next event when that one is a
\* linear ramp; gain.value = 0 before the first event.
valueAt(tl, t) ==
    LET notLater(x) == x.time <= t
        later(x)    == x.time > t
        before == SelectSeq(tl, notLater)
        after  == SelectSeq(tl, later)
        prev   == before[Len(before)]
        next   == after[1]
    IN  IF before = <<>> THEN 0
        ELSE IF after # <<>> /\ next.kind = "ramp"
             THEN prev.value +
                  ((next.value - prev.value) * (t - prev.time)) \div (next.time - prev.time)
             ELSE prev.value

\* SIDVoice.playNote: the setValueAtTime and linearRampToValueAtTime calls
\* on envelope.gain, in call order; the attack ramp goes to 1.
playNoteEnvelope(p, t0, duration) ==
    <<[kind |-> "set",  value |-> 0,              time |-> t0],
      [kind |-> "ramp", value |-> 1000,           time |-> t0 + p.attack],
      [kind |-> "ramp", value |-> p.sustain * 10, time |-> t0 + p.attack + p.decay],
      [kind |-> "set",  value |-> p.sustain * 10, time |-> t0 + duration],
      [kind |-> "ramp", value |-> 0,              time |-> t0 + duration + p.release]>>

\* x || d: the default replaces a falsy x, and 0 is falsy
orDefault(x, d) == IF x = 0 THEN d ELSE x

\* AudioExporter.scheduleNote: attack || 0.01, decay || 0.1, sustain || 0.7,
\* release || 0.2, and the attack ramp goes to 0.8.
scheduleNoteEnvelope(p, startTime, duration) ==
    LET attackTime   == orDefault(p.attack, 10000)
        decayTime    == orDefault(p.decay, 100000)
        sustainLevel == orDefault(p.sustain, 70)
        releaseTime  == orDefault(p.release, 200000)
        releaseStart == startTime + duration
    IN  <<[kind |-> "set",  value |-> 0,                time |-> startTime],
          [kind |-> "ramp", value |-> 800,              time |-> startTime + attackTime],
          [kind |-> "ramp", value |-> sustainLevel * 8,
                            time |-> startTime + attackTime + decayTime],
          [kind |-> "set",  value |-> sustainLevel * 8, time |-> releaseStart],
          [kind |-> "ramp", value |-> 0,                time |-> releaseStart + releaseTime]>>

\* The ADSR slider's input listener: value / 100 for sustain and
\* 0.001 + (value / 100) * 1.999 seconds for the others, handed to
\* SIDEngine.setVoiceParam, which ignores a voice index past the last voice.
setVoiceParam(v, param, value) ==
    /\ voiceParams' = IF v >= NumVoices THEN voiceParams
                      ELSE [voiceParams EXCEPT ![v][param] =
                               IF param = "sustain" THEN value ELSE 1000 + value * 19990]
    /\ UNCHANGED <<lastEnvelope, gridVars, transportVars, voiceVars, exportVars, appVars>>

\* SIDEngine.playNote(voiceIndex, frequency, duration) for a note of the
\* given length at the transport's tempo: SIDVoice.playNote with the
\* voice's params at the audio clock's current time.
enginePlayNote(v, n, length) ==
    LET duration == onBeatDuration(stateBpm, length)
    IN  /\ app.engine
        /\ activeOsc' = playNote(activeOsc, v, n, duration)
        /\ liveNodes' = nodesAfterPlay(liveNodes, activeOsc, v, n, duration)
        /\ lastEnvelope' = [op |-> "playNote", voice |-> v, params |-> voiceParams[v],
                            peak |-> 1000, start |-> now, duration |-> duration,
                            events |-> timeline(playNoteEnvelope(voiceParams[v], now, duration))]
        /\ UNCHANGED <<voiceParams, currentStep, gridVars, transportVars, exportVars, appVars>>

\* renderToBuffer's scheduleNote call for a note-start of the given length
\* at the given step of voice v, with the voices array getProjectData read
\* from the engine.
scheduleNote(v, step, length) ==
    LET startTime == step * secondsPerBeat(stateBpm)
        duration  == renderDuration(stateBpm, length)
    IN  /\ lastEnvelope' = [op |-> "scheduleNote", voice |-> v, params |-> voiceParams[v],
                            peak |-> 800, start |-> startTime, duration |-> duration,
                            events |-> timeline(scheduleNoteEnvelope(voiceParams[v],
                                                                     startTime, duration))]
        /\ UNCHANGED <<voiceParams, gridVars, transportVars, voiceVars, exportVars, appVars>>

\* ---------------------------------------------------- project lifecycle
\* the btn-new click, confirmed: ProjectManager.createNew() replaces
\* currentProject by a fresh record and sets state.bpm from it; it calls
\* nothing of the Sequencer or the Transport.
createNewProject ==
    /\ Idle
    /\ currentProject' = createNew
    /\ stateBpm' = createNew.bpm
    /\ lastEdit' = Edit("createNew", -1, -1, -1, 0)
    /\ DrawUnchanged /\ SelUnchanged
    /\ UNCHANGED <<grid, clipboard, voiceVars>>
    /\ UNCHANGED <<isPlaying, bpm, currentBeat, loopStart, loopEnd, schedulerInterval,
                   liveIntervals, nextBeatTime, timers, now, lastScheduled, stoppedAt,
                   lastTransport>>
    /\ UNCHANGED <<exporterIsExporting, modalIsExporting, rendering, lamejsLoaded,
                   lastExport, app, engineVars>>

\* main.js before init() has run, after it ran through, and after its catch
\* block ran
AppState ==
    [loading |-> [engine |-> FALSE, sequencer |-> FALSE, loading |-> "shown"],
     ready   |-> [engine |-> TRUE,  sequencer |-> TRUE,  loading |-> "hidden"],
     failed  |-> [engine |-> FALSE, sequencer |-> FALSE, loading |-> "error"]]

\* init(): when engine.init() throws (no AudioContext can be made), control
\* goes to the catch block, which only calls showError: the Transport, the
\* Sequencer and the other components are not constructed and no event
\* listener is attached.
appInit(audioOk) ==
    /\ app = AppState.loading
    /\ app' = IF audioOk THEN AppState.ready ELSE AppState.failed
    /\ UNCHANGED <<gridVars, transportVars, voiceVars, exportVars, engineVars>>

\* Sequencer.export() returns the grid array itself
export_flat(g) ==
    [v \in Voices |-> [n \in Rows |-> [c \in Cols |-> IF g[v][n][c] > 0 THEN 1 ELSE 0]]]

export(g) == g

\* Sequencer.load(data) adopts the array it is given (an array is never falsy)
load(g, data) == data

\* the grid exported and loaded back: sequencer.load(sequencer.export())
reload ==
    /\ Idle
    /\ grid' = load(grid, export(grid))
    /\ lastEdit' = Edit("load", -1, -1, -1, NoteCount(grid))
    /\ DrawUnchanged /\ SelUnchanged /\ UNCHANGED <<clipboard, activeOsc, liveNodes>>
    /\ EditFrame

\* -------------------------------------------------------------- behaviour
InitExport ==
    /\ exporterIsExporting = FALSE
    /\ modalIsExporting = FALSE
    /\ rendering = <<>>
    /\ lamejsLoaded \in BOOLEAN
    /\ currentProject = createNew
    /\ lastExport = [op |-> "init", kind |-> "none", via |-> "none", outcome |-> "none",
                     busy |-> FALSE, prev |-> "none", before |-> createNew, wav |-> NoWav]

InitSequencer ==
    /\ isDrawing = FALSE
    /\ isRapidMode = FALSE
    /\ drawStart = NoCell
    /\ drawLastCol = -1
    /\ drawLastCell = NoKey
    /\ selection = NoSelection
    /\ isSelecting = FALSE
    /\ selectionStart = NoCell
    /\ clipboard = NoClipboard
    /\ lastEdit = Edit("init", -1, -1, -1, 0)
    /\ currentStep = 0
    /\ app = AppState.ready

\* The transport as constructed, brought to tempo b and loop bars (ls, le)
\* by setBPM, setLoopEnd and setLoopStart before anything is played.
TransportAt(b, ls, le) ==
    /\ isPlaying = FALSE
    /\ bpm = b
    /\ stateBpm = b
    /\ currentBeat = 0
    /\ loopStart = ls
    /\ loopEnd = le
    /\ schedulerInterval = 0
    /\ liveIntervals = {}
    /\ nextBeatTime = 0
    /\ timers = <<>>
    /\ now = 0
    /\ lastScheduled = -1
    /\ activeOsc = [v \in Voices |-> NoOsc]
    /\ stoppedAt = -1
    /\ liveNodes = [v \in Voices |-> {}]
    /\ voiceParams = [v \in Voices |-> DefaultParams]
    /\ lastEnvelope = NoEnvelope
    /\ lastTransport = [op |-> "init", wasPlaying |-> FALSE, beats |-> <<>>, prev |-> -1,
                        time |-> -1, onStop |-> 0, retired |-> 0, tempo |-> b, arg |-> 0,
                        calls |-> <<>>]

DefaultBpm       == 120
DefaultLoopStart == 1
DefaultLoopEnd   == 4

InitTransport == TransportAt(DefaultBpm, DefaultLoopStart, DefaultLoopEnd)

Init == grid = EmptyGrid /\ InitSequencer /\ InitTransport /\ InitExport

\* The note grid under the pointer gestures and the programmatic cell calls.
PointerDown == \E v \in Voices, n \in Rows, c \in Cols, isCtrl \in BOOLEAN :
                  handlePointerDown(v, n, c, FALSE, isCtrl)
PointerMove == \E v \in Voices, n \in Rows, c \in Cols : handlePointerMove(v, n, c)
PointerUp   == handlePointerUp
SetCell     == \E v \in Voices, n \in Rows, c \in Cols, length \in 1 .. MaxLen : setCell(v, n, c, length)
ContextDelete == \E v \in Voices, n \in Rows, c \in Cols : contextDelete(v, n, c)

NextEdit == PointerDown \/ PointerMove \/ PointerUp \/ SetCell \/ ContextDelete

SpecEdit == Init /\ [][NextEdit]_vars

\* The note grid under the gestures of the user interface alone.
NextPointer == PointerDown \/ PointerMove \/ PointerUp \/ ContextDelete

SpecPointer == Init /\ [][NextPointer]_vars

\* The transport under play, stop, the tick, the queued callbacks and the
\* setters, playing a grid that holds notes.
TransportGrid == SetAt(SetAt(EmptyGrid, 0, 0, 0, 2), NumVoices - 1, NumRows - 1, 1, 1)

LoopChoices == {<<1, 4>>, <<2, 3>>}

InitPlayback ==
    /\ grid = TransportGrid
    /\ InitSequencer
    /\ \E l \in LoopChoices : TransportAt(DefaultBpm, l[1], l[2])
    /\ InitExport

Play         == play
Stop         == stop
Scheduler    == scheduler
OnBeat       == onBeat
AdvanceClock == advanceClock

NextTransport == Play \/ Stop \/ Scheduler \/ OnBeat \/ AdvanceClock

SpecTransport == InitPlayback /\ [][NextTransport]_vars

\* Uninterrupted playback of a loop: play() once, then only the tick, the
\* queued callbacks and the clock.
LoopBpms == {120, 200}

InitLoop ==
    /\ grid = TransportGrid
    /\ InitSequencer
    /\ \E l \in LoopChoices, b \in LoopBpms : TransportAt(b, l[1], l[2])
    /\ InitExport

PlayOnce          == ~isPlaying /\ play
AdvanceClockSteady == advanceClockSteady

NextLoop == PlayOnce \/ Scheduler \/ OnBeat \/ AdvanceClockSteady

SpecLoop == InitLoop /\ [][NextLoop]_vars

\* The transport's setters under arbitrary integer arguments, with play and
\* stop between them.
MaxArg == 1000      \* the largest argument handed to a setter

BpmArgs == {-MaxArg, 0, 59, 60, 61, 120, 199, 200, 201, MaxArg}
BarArgs == {-MaxArg, 0, 1, 2, 3, MaxBar - 1, MaxBar, MaxBar + 1, MaxArg}

SetBPM       == \E x \in BpmArgs : setBPM(x)
SetLoopStart == \E bar \in BarArgs : setLoopStart(bar)
SetLoopEnd   == \E bar \in BarArgs : setLoopEnd(bar)

NextSetters == SetBPM \/ SetLoopStart \/ SetLoopEnd \/ Play \/ Stop

SpecSetters == Init /\ [][NextSetters]_vars

\* Playback during which the tempo and the loop are changed.
RetuneBpms == {120, 200}
RetuneBars == {2, 3}

Retune      == \E x \in RetuneBpms : setBPM(x)
ReloopStart == \E bar \in RetuneBars : setLoopStart(bar)
ReloopEnd   == \E bar \in RetuneBars : setLoopEnd(bar)

NextRetune == PlayOnce \/ Scheduler \/ OnBeat \/ AdvanceClock \/ Retune \/ ReloopStart
                  \/ ReloopEnd

InitRetune ==
    /\ grid = TransportGrid
    /\ InitSequencer
    /\ InitTransport
    /\ InitExport

SpecRetune == InitRetune /\ [][NextRetune]_vars

\* Playback after the tempo field has been set and the New button pressed.
NextTempo == PlayOnce \/ Scheduler \/ OnBeat \/ AdvanceClock \/ Retune \/ createNewProject

SpecTempo == InitRetune /\ [][NextTempo]_vars

\* Export requests, through the modal's buttons and straight to the
\* exporter, interleaved with the completions of the render passes.
RequestExport  == \E kind \in ExportKinds, via \in ExportVias, syncFail \in BOOLEAN :
                     requestExport(kind, via, syncFail)
CompleteExport == \E i \in 1 .. Len(rendering), rendered \in BOOLEAN : completeExport(i, rendered)

NextExport == RequestExport \/ CompleteExport

SpecExport == Init /\ [][NextExport]_vars

\* A grid with notes under rectangular selections (shift + pointer gesture)
\* and the arrow keys that move and transpose the selection.
SelectGrid == SetAt(SetAt(EmptyGrid, 0, 0, 1, 2), 0, NumRows - 1, 2, 1)

Directions == {-1, 1}

InitSelect == grid = SelectGrid /\ InitSequencer /\ InitTransport /\ InitExport

ShiftPointerDown   == \E v \in Voices, n \in Rows, c \in Cols :
                         handlePointerDown(v, n, c, TRUE, FALSE)
MoveSelection      == \E direction \in Directions : moveSelection(direction)
TransposeSelection == \E direction \in Directions : transposeSelection(direction)

NextSelect == ShiftPointerDown \/ PointerMove \/ PointerUp \/ MoveSelection
                  \/ TransposeSelection

SpecSelect == InitSelect /\ [][NextSelect]_vars

\* The same grid with a rectangle of one voice selected by a finished
\* shift + pointer gesture, under the clipboard keys; a later shift +
\* pointer-down selects a single cell.
InitClipboard ==
    /\ grid = SelectGrid
    /\ InitTransport /\ InitExport
    /\ isDrawing = FALSE /\ isRapidMode = FALSE /\ drawStart = NoCell
    /\ drawLastCol = -1 /\ drawLastCell = NoKey
    /\ isSelecting = FALSE
    /\ clipboard = NoClipboard
    /\ lastEdit = Edit("pointerUp", -1, -1, -1, 0)
    /\ currentStep = 0
    /\ app = AppState.ready
    /\ \E n1 \in Rows, n2 \in Rows, c1 \in Cols, c2 \in Cols :
          /\ n1 <= n2 /\ c1 <= c2
          /\ selection = [voice |-> 0, startNote |-> n1, endNote |-> n2,
                          startCol |-> c1, endCol |-> c2]
          /\ selectionStart = [voice |-> 0, noteIndex |-> n1, col |-> c1]

\* each behaviour pastes once, onto the grid as it was selected and copied from
PasteOnce == grid = SelectGrid /\ pasteClipboard

NextClipboard == ShiftPointerDown \/ PointerUp \/ copySelection \/ PasteOnce

SpecClipboard == InitClipboard /\ [][NextClipboard]_vars

NextDuplicate == ShiftPointerDown \/ PointerUp \/ duplicateSelection \/ deleteSelection

SpecDuplicate == InitClipboard /\ [][NextDuplicate]_vars

\* The cell calls of the Sequencer's interface with arguments at the edges
\* of the grid and one step outside them.
NextCalls ==
    \E v \in {0, NumVoices}, n \in {-1, 0, NumRows - 1}, c \in {-1, 0, NumCols - 1, NumCols} :
        callSetCell(v, n, c, 1) \/ callDeleteNoteAt(v, n, c) \/ clearCell(v, n, c)

SpecCalls == Init /\ [][NextCalls]_vars

\* deleteNoteAt aimed at every cell of a grid that holds two notes on one
\* lane and a third on another.
DeleteGrids ==
    {SetAt(SetAt(SetAt(EmptyGrid, 0, NumRows - 1, c3, 1), 0, 0, c1, l1), 0, 0, c2, l2) :
        c1 \in Cols, l1 \in 1 .. MaxLen, c2 \in Cols, l2 \in 1 .. MaxLen, c3 \in Cols}

InitDelete == grid \in DeleteGrids /\ InitSequencer /\ InitTransport /\ InitExport

SpecDelete == InitDelete /\ [][ContextDelete]_vars

\* A grid with notes on it under the New button and an export / load round
\* trip, with deleteNoteAt in between.
InitProject == grid \in DeleteGrids /\ InitSequencer /\ InitTransport /\ InitExport

NextProject == createNewProject \/ reload \/ ContextDelete

SpecProject == InitProject /\ [][NextProject]_vars

\* The page from its load on: init() with an audio engine that starts or
\* fails to start, then the pointer handlers of the Sequencer, which exist
\* once the Sequencer has been constructed.
InitStartup ==
    /\ grid = EmptyGrid /\ InitTransport /\ InitExport
    /\ isDrawing = FALSE /\ isRapidMode = FALSE /\ drawStart = NoCell
    /\ drawLastCol = -1 /\ drawLastCell = NoKey
    /\ selection = NoSelection /\ isSelecting = FALSE /\ selectionStart = NoCell
    /\ clipboard = NoClipboard
    /\ lastEdit = Edit("init", -1, -1, -1, 0)
    /\ currentStep = 0
    /\ app = AppState.loading

NextStartup ==
    \/ \E audioOk \in BOOLEAN : appInit(audioOk)
    \/ app.sequencer /\ PointerDown
    \/ app.sequencer /\ PointerUp

SpecStartup == InitStartup /\ [][NextStartup]_vars

\* bufferToWav over short buffers of every length and over the buffers the
\* renderer delivers, mono to MaxChannels channels, at the common rates.
MaxFrames   == 20
MaxChannels == 2

NextWav ==
    \E frames \in 0 .. MaxFrames \cup {renderedBuffer(b).length : b \in LoopBpms},
       channels \in 1 .. MaxChannels, rate \in {22050, 44100, 48000} :
        encodeWav([length |-> frames, numberOfChannels |-> channels, sampleRate |-> rate])

SpecWav == Init /\ [][NextWav]_vars

\* Exports of a grid that holds two notes on one voice, at the tempo the
\* transport has been set to.
RenderGrids ==
    {SetAt(SetAt(EmptyGrid, 0, 0, c1, l1), 0, NumRows - 1, c2, l2) :
        c1 \in Cols, l1 \in 1 .. MaxLen, c2 \in Cols, l2 \in 1 .. MaxLen}

InitRender ==
    /\ grid \in RenderGrids
    /\ InitSequencer
    /\ \E b \in LoopBpms : TransportAt(b, DefaultLoopStart, DefaultLoopEnd)
    /\ InitExport

SpecRender == InitRender /\ [][NextExport]_vars

\* The voices' envelopes under the ADSR sliders, the engine's note triggers
\* and the offline renderer's note scheduling.
SliderValues  == {0, 50}
SustainValues == {0, 50, 100}

NextEnvelope ==
    \/ \E param \in {"attack", "decay"}, value \in SliderValues :
           setVoiceParam(0, param, value)
    \/ \E value \in SustainValues : setVoiceParam(0, "sustain", value)
    \/ \E length \in {1, NumCols} : enginePlayNote(0, 0, length)
    \/ \E length \in {1, NumCols} : scheduleNote(0, 0, length)

SpecEnvelope == Init /\ [][NextEnvelope]_vars

\* Playback that is never stopped: the tick fires, the queued callbacks run
\* and the audio clock advances, each of them again and again.
AdvanceClockRolling == advanceClockRolling

NextForever == PlayOnce \/ Scheduler \/ OnBeat \/ AdvanceClockRolling

InitForever ==
    /\ grid = TransportGrid
    /\ InitSequencer
    /\ \E b \in LoopBpms : TransportAt(b, 2, 3)
    /\ InitExport /\ lamejsLoaded

SpecForever ==
    /\ InitForever
    /\ [][NextForever]_vars
    /\ WF_vars(Scheduler) /\ WF_vars(OnBeat) /\ WF_vars(AdvanceClockRolling)

\* Copy and paste with the paste repeated: a paste may be followed at once
\* by the same paste again.
PasteAgain == lastEdit.op = "pasteClipboard" /\ pasteClipboard

NextPaste == ShiftPointerDown \/ PointerUp \/ copySelection \/ PasteOnce \/ PasteAgain

SpecPaste == InitClipboard /\ [][NextPaste]_vars

\* ------------------------------------------------------------ properties

\* C1: in every reachable grid no two note-starts of one (voice, row) lane
\* have overlapping spans [col, col + length).
C1_NoOverlap ==
    \A v \in Voices, n \in Rows, c1 \in Cols, c2 \in Cols :
        (c1 < c2 /\ grid[v][n][c1] > 0 /\ grid[v][n][c2] > 0)
            => c1 + grid[v][n][c1] <= c2

\* C3: isNoteContinuation(voice, row, col) is true exactly when some
\* note-start at a column c < col of the lane has c + length > col.
C3_ContinuationIff ==
    \A v \in Voices, n \in Rows, col \in Cols :
        isNoteContinuation(grid, v, n, col)
            <=> \E c \in 0 .. col - 1 : grid[v][n][c] > 0 /\ c + grid[v][n][c] > col

\* the span [col, col + len) meets the span of a note-start of the lane
\* (other than the note at col itself when that note is being lengthened)
SpanOverlaps(g, v, n, col, len, lengthening) ==
    \E c \in Cols :
        /\ g[v][n][c] > 0
        /\ c < col + len /\ col < c + g[v][n][c]
        /\ ~(lengthening /\ c = col)

\* C4: placing or lengthening a note so that its span overlaps an existing
\* note-start's span fails and leaves the grid unchanged; placing a note
\* whose span overlaps nothing writes it.
C4_PlaceRejectsOverlap ==
    [][lastEdit'.op \in {"setCell", "pointerDown.place", "pointerMove.rapid", "pointerMove.extend"} =>
         LET e == lastEdit'
         IN  IF SpanOverlaps(grid, e.voice, e.noteIndex, e.col, e.length,
                             e.op = "pointerMove.extend")
             THEN grid' = grid
             ELSE grid' = SetAt(grid, e.voice, e.noteIndex, e.col, e.length)]_vars

\* C5: deleteNoteAt on a column inside the span of a note-start empties that
\* note-start's cell and no other cell, and afterwards no column of the
\* former span is a continuation.
C5_DeleteExactlyThatNote ==
    [][lastEdit'.op \in {"deleteNoteAt", "pointerDown.delete"} =>
         LET e == lastEdit'
         IN  \A col \in Cols :
                 LET L == grid[e.voice][e.noteIndex][col]
                 IN  (L > 0 /\ col <= e.col /\ e.col < col + L) =>
                         /\ grid' = SetAt(grid, e.voice, e.noteIndex, col, 0)
                         /\ \A x \in col .. Min(col + L - 1, NumCols - 1) :
                                ~isNoteContinuation(grid', e.voice, e.noteIndex, x)]_vars

\* C2: after stop() returns no onBeat callback is delivered until the next
\* play(): a beat callback whose scheduled time had not arrived when
\* playback was halted is cancelled, so it is never delivered to a Stopped
\* transport.
C2_StopCancelsPendingBeats ==
    (lastTransport.op = "onBeat" /\ lastTransport.time > stoppedAt)
        => lastTransport.wasPlaying

\* C8: play() while Playing changes nothing of the transport (beat counter,
\* virtual clock, armed tick); play() while Stopped makes it Playing with
\* currentBeat = (loopStart - 1) * 16 and nextBeatTime = the audio clock.
C8_PlayContract ==
    [][lastTransport'.op = "play" =>
         IF isPlaying
         THEN UNCHANGED <<isPlaying, currentBeat, nextBeatTime, schedulerInterval, liveIntervals,
                          timers, bpm, loopStart, loopEnd>>
         ELSE /\ isPlaying'
              /\ currentBeat' = (loopStart - 1) * BeatsPerBar
              /\ nextBeatTime' = now
              /\ Cardinality(liveIntervals') = 1
              /\ schedulerInterval' \in liveIntervals']_vars

\* play() was called on a transport that was Playing and had moved on from
\* the loop start
C8_Witness ==
    /\ lastTransport.op = "play"
    /\ lastTransport.wasPlaying
    /\ currentBeat # loopStartBeat
    /\ nextBeatTime > now

\* C9: stop() on a Playing transport cancels the tick, leaves no voice
\* sounding and puts currentBeat back to (loopStart - 1) * 16; stop() on a
\* Stopped transport changes nothing.
C9_StopContract ==
    [][lastTransport'.op = "stop" =>
         IF isPlaying
         THEN /\ ~isPlaying'
              /\ schedulerInterval' = 0
              /\ liveIntervals' = {}
              /\ \A v \in Voices : activeOsc'[v] = NoOsc
              /\ currentBeat' = (loopStart - 1) * BeatsPerBar
         ELSE UNCHANGED <<isPlaying, currentBeat, nextBeatTime, schedulerInterval, liveIntervals,
                          timers, bpm, stateBpm, loopStart, loopEnd, now, activeOsc,
                          currentStep>>]_vars

\* stop() was called again on a transport that an earlier stop() had halted
C9_Witness ==
    /\ lastTransport.op = "stop"
    /\ ~lastTransport.wasPlaying
    /\ stoppedAt >= 0
    /\ ~isPlaying

\* C10: in uninterrupted playback the beats scheduled are (loopStart-1)*16,
\* ..., loopEnd*16 - 1 and then (loopStart-1)*16 again: each scheduled beat
\* is the cyclic successor, within the loop, of the beat scheduled before
\* it, and the first one is the first beat of the loop.
C10_FirstBeat == (loopStart - 1) * BeatsPerBar
C10_LoopBeats == (loopEnd - loopStart + 1) * BeatsPerBar

C10_LoopSequence ==
    lastTransport.op = "scheduler" =>
        \A i \in 1 .. Len(lastTransport.beats) :
            LET p == IF i = 1 THEN lastTransport.prev ELSE lastTransport.beats[i - 1]
            IN  lastTransport.beats[i] =
                    IF p = -1 THEN C10_FirstBeat
                    ELSE C10_FirstBeat + ((p - C10_FirstBeat + 1) % C10_LoopBeats)

\* a tick scheduled the first beat of the loop right after its last beat
C10_Witness ==
    /\ lastTransport.op = "scheduler"
    /\ \E i \in 1 .. Len(lastTransport.beats) :
          /\ lastTransport.beats[i] = C10_FirstBeat
          /\ (IF i = 1 THEN lastTransport.prev ELSE lastTransport.beats[i - 1])
                 = loopEnd * BeatsPerBar - 1

\* C6: at most one render pass of the exporter is in flight, and an export
\* request made while one is in flight fails at once (the exporter throws,
\* or the modal ignores the click) and starts no render pass.
C6_ExclusiveExport ==
    /\ Len(rendering) <= 1
    /\ (lastExport.op = "request" /\ lastExport.busy)
          => lastExport.outcome \in {"rejected", "ignored"}

\* the exporter threw at a request made while a render pass was in flight,
\* and that pass is still the only one
C6_Witness ==
    /\ lastExport.op = "request"
    /\ lastExport.busy
    /\ lastExport.outcome = "rejected"
    /\ Len(rendering) = 1

\* C7: when an export ends, by success, render failure or a missing
\* encoder, both export-in-progress flags are false again, and the request
\* that follows is accepted.
C7_FlagsReleased ==
    /\ lastExport.outcome \in EndOutcomes
          => (~exporterIsExporting /\ ~modalIsExporting)
    /\ (lastExport.op = "request" /\ lastExport.prev \in EndOutcomes)
          => lastExport.outcome \in {"started", "renderFailed"}

\* an export through the modal was started right after one had ended for
\* want of the MP3 encoder
C7_Witness ==
    /\ lastExport.op = "request"
    /\ lastExport.via = "modal"
    /\ lastExport.prev = "encoderUnavailable"
    /\ lastExport.outcome = "started"

\* C11: every beat the scheduler schedules gets exactly one queued callback,
\* a callback leaves the queue only by delivering its beat to onBeat, once,
\* and nothing else adds or drops a callback; onStop is called once by a
\* stop() that halts a Playing transport and by nothing else.
C11_ExactlyOnce ==
    [][/\ lastTransport'.op = "scheduler" =>
           /\ Len(timers') = Len(timers) + Len(lastTransport'.beats)
           /\ SubSeq(timers', 1, Len(timers)) = timers
           /\ \A i \in 1 .. Len(lastTransport'.beats) :
                  timers'[Len(timers) + i].beat = lastTransport'.beats[i]
       /\ lastTransport'.op = "onBeat" =>
           \E i \in 1 .. Len(timers) :
               /\ timers' = RemoveAt(timers, i)
               /\ lastTransport'.beats = <<timers[i].beat>>
       /\ lastTransport'.op \notin {"scheduler", "onBeat"} => timers' = timers
       /\ lastTransport'.onStop = IF lastTransport'.op = "stop" /\ isPlaying THEN 1 ELSE 0]_vars

\* a beat was delivered while other beats were still queued, after playback
\* had been halted at least once
C11_Witness ==
    /\ lastTransport.op = "onBeat"
    /\ timers # <<>>
    /\ stoppedAt >= 0

C16_OneInstancePerVoice ==
    \A v \in Voices :
        /\ Cardinality(liveNodes[v]) <= 1
        /\ liveNodes[v] = IF activeOsc[v] = NoOsc THEN {} ELSE {activeOsc[v]}

\* a delivered beat started a note on a voice that was sounding another one
C16_Witness ==
    /\ lastTransport.op = "onBeat"
    /\ lastTransport.retired >= 1

C14_BpmClamped ==
    /\ bpm >= 60 /\ bpm <= 200
    /\ lastTransport.op = "setBPM" =>
           bpm = IF lastTransport.arg < 60 THEN 60
                 ELSE IF lastTransport.arg > 200 THEN 200
                 ELSE lastTransport.arg

\* setBPM was called with an argument above 200
C14_Witness ==
    /\ lastTransport.op = "setBPM"
    /\ lastTransport.arg > 200
    /\ bpm = 200

\* C15: after any sequence of setLoopStart and setLoopEnd calls the loop
\* starts at bar 1 or later and ends after it starts.
C15_LoopWellFormed == loopStart >= 1 /\ loopStart < loopEnd

\* setLoopStart was called with a bar at or beyond the loop end and the
\* start was held one bar below the end
C15_Witness ==
    /\ lastTransport.op = "setLoopStart"
    /\ lastTransport.arg >= loopEnd
    /\ loopStart = loopEnd - 1
    /\ loopStart > 1

\* C17: the duration the offline renderer gives a note-start of length L at
\* tempo bpm is the duration real-time playback gives it.
C17_SameDuration ==
    \A i \in 1 .. Len(rendering) :
        \A note \in rendering[i].notes :
            note.releaseStart - note.start = onBeatDuration(rendering[i].tempo, note.length)

\* C18: an offline render pass of the Sequencer's grid, as the export modal
\* starts it, plays the notes real-time playback from step 0 plays: each note-start of the grid, on its voice and row, starting at
\* step * secondsPerBeat, and, as in real-time playback where a voice drops
\* its sounding note when it starts the next, a note has stopped sounding
\* when a later note of the same voice starts.
C18_RenderMatchesPlayback ==
    \A i \in 1 .. Len(rendering) :
        LET notes == rendering[i].notes
            spb   == 15000000 \div rendering[i].tempo
        IN  rendering[i].via = "modal" =>
            /\ \A v \in Voices, n \in Rows, c \in Cols :
                   grid[v][n][c] > 0 <=>
                       \E note \in notes : /\ note.voice = v /\ note.noteIndex = n
                                            /\ note.start = c * spb
            /\ \A a \in notes, b \in notes :
                   (a.voice = b.voice /\ a.start < b.start) => a.releaseStart <= b.start

\* C19: when an export has failed, by a render failure or for want of the
\* encoder, the current project's grid, voices and bpm fields are what they
\* were before the export was requested.
C19_FailedExportLeavesProject ==
    lastExport.outcome \in {"renderFailed", "encoderUnavailable"}
        => currentProject = lastExport.before

\* C20: moveSelection and transposeSelection are all-or-nothing: when the
\* new position of some note-start inside the selection would be outside the
\* grid, the grid and the selection stay as they are; otherwise every
\* note-start inside the selection is at its position shifted by the delta,
\* with its length.
C20_MoveAllOrNothing ==
    [][lastEdit'.op \in {"moveSelection", "transposeSelection"} =>
         LET dn     == lastEdit'.noteIndex
             dc     == lastEdit'.col
             v      == selection.voice
             starts == {x \in Rows \X Cols :
                           /\ x[1] >= selection.startNote /\ x[1] <= selection.endNote
                           /\ x[2] >= selection.startCol /\ x[2] <= selection.endCol
                           /\ grid[v][x[1]][x[2]] > 0}
         IN  IF \E x \in starts : x[1] + dn \notin Rows \/ x[2] + dc \notin Cols
             THEN grid' = grid /\ selection' = selection
             ELSE \A x \in starts :
                      grid'[v][x[1] + dn][x[2] + dc] = grid[v][x[1]][x[2]]]_vars

\* C21: duplicateSelection is all-or-nothing: when the copy of some
\* note-start inside the selection would land in a column outside the grid,
\* the grid stays as it is; otherwise every note-start inside the selection
\* is written again, with its length, width-of-the-selection columns to the
\* right.
C21_DuplicateAllOrNothing ==
    [][lastEdit'.op = "duplicateSelection" =>
         LET v      == selection.voice
             shift  == selection.endCol + 1 - selection.startCol
             starts == {x \in Rows \X Cols :
                           /\ x[1] >= selection.startNote /\ x[1] <= selection.endNote
                           /\ x[2] >= selection.startCol /\ x[2] <= selection.endCol
                           /\ grid[v][x[1]][x[2]] > 0}
         IN  IF \E x \in starts : x[2] + shift \notin Cols
             THEN grid' = grid
             ELSE \A x \in starts :
                      grid'[v][x[1]][x[2] + shift] = grid[v][x[1]][x[2]]]_vars

\* C22: a paste with a selection writes every clipboard note-start whose
\* cell (startNote + noteOffset, startCol + colOffset) is inside the grid,
\* with its length, and changes no other cell: the clipboard notes whose
\* cell is outside the grid are passed over and the others are still written.
C22_PasteSkipsOutside ==
    [][lastEdit'.op = "pasteClipboard" /\ selection # NoSelection =>
         LET v      == selection.voice
             notes  == clipboard.notes
             row(i) == selection.startNote + notes[i].noteOffset
             col(i) == selection.startCol + notes[i].colOffset
             inside == {i \in 1 .. Len(notes) : row(i) \in Rows /\ col(i) \in Cols}
         IN  /\ \A i \in inside : grid'[v][row(i)][col(i)] = notes[i].length
             /\ \A w \in Voices, n \in Rows, c \in Cols :
                    (w # v \/ \A i \in inside : row(i) # n \/ col(i) # c)
                        => grid'[w][n][c] = grid[w][n][c]]_vars

\* A paste has run with one clipboard note falling outside the grid and
\* another written inside it.
C22_Witness ==
    /\ lastEdit.op = "pasteClipboard"
    /\ selection # NoSelection
    /\ grid # SelectGrid
    /\ \E i \in 1 .. Len(clipboard.notes), j \in 1 .. Len(clipboard.notes) :
          /\ selection.startCol + clipboard.notes[i].colOffset \notin Cols
          /\ selection.startNote + clipboard.notes[j].noteOffset \in Rows
          /\ selection.startCol + clipboard.notes[j].colOffset \in Cols
          /\ grid[selection.voice][selection.startNote + clipboard.notes[j].noteOffset]
                 [selection.startCol + clipboard.notes[j].colOffset]
                 = clipboard.notes[j].length

\* C23: deleteNoteAt aimed at a cell that holds no note-start and lies in
\* the span of no note-start of its lane leaves the whole grid as it was, and
\* the continuation query answers FALSE for such a cell.
C23_DeleteAbsentIsNoOp ==
    [][lastEdit'.op = "deleteNoteAt" =>
         LET v == lastEdit'.voice
             n == lastEdit'.noteIndex
             c == lastEdit'.col
             covered == \E c0 \in 0 .. c :
                            grid[v][n][c0] > 0 /\ c0 + grid[v][n][c0] > c
         IN  ~covered => grid' = grid /\ ~isNoteContinuation(grid, v, n, c)]_vars

\* deleteNoteAt has run on a grid of three notes and removed nothing: the cell it was
\* aimed at is empty and no note of its lane reaches it.
C23_Witness ==
    /\ lastEdit.op = "deleteNoteAt"
    /\ grid \in DeleteGrids /\ NoteCount(grid) > 2
    /\ grid[lastEdit.voice][lastEdit.noteIndex][lastEdit.col] = 0
    /\ \E c0 \in 0 .. lastEdit.col - 1 : grid[lastEdit.voice][lastEdit.noteIndex][c0] > 0
    /\ ~\E c0 \in 0 .. lastEdit.col :
           /\ grid[lastEdit.voice][lastEdit.noteIndex][c0] > 0
           /\ c0 + grid[lastEdit.voice][lastEdit.noteIndex][c0] > lastEdit.col

\* C24: no mutating grid operation ends in an error, whatever voice, row
\* and column it was called with.
C24_OutOfRangeNeverRaises ==
    lastEdit.op \in {"setCell", "deleteNoteAt", "clearCell", "pasteClipboard",
                     "moveSelection", "transposeSelection", "duplicateSelection"}
        => ~lastEdit.threw

\* C25: right after a new project is created, the Sequencer's grid (the one
\* editing, playback, save and export read) holds no note-start.
C25_NewProjectGridEmpty ==
    lastEdit.op = "createNew" => NoteCount(grid) = 0

\* C26: loading what export returned gives back the same grid: the same
\* note-starts at the same (voice, row, column) cells with the same lengths,
\* and every cell that held no note-start still holds none.
C26_ExportLoadRoundTrip ==
    [][lastEdit'.op = "load" =>
         \A v \in Voices, n \in Rows, c \in Cols : grid'[v][n][c] = grid[v][n][c]]_vars

\* A grid with a note longer than one step, whose continuation cell is
\* empty, has been exported and loaded back.
C26_Witness ==
    /\ lastEdit.op = "load"
    /\ \E v \in Voices, n \in Rows, c \in Cols :
          c + 1 \in Cols /\ grid[v][n][c] > 1 /\ grid[v][n][c + 1] = 0

\* C27: after the audio output failed to initialise, the editing handlers
\* are still there: the Sequencer exists and a pointer-down on a grid cell
\* can place or delete a note.
C27_EditingSurvivesAudioFailure ==
    app.loading = "error" => ENABLED (app.sequencer /\ PointerDown)

\* C28: the WAV header bufferToWav writes for a buffer of F frames and N
\* channels says 16-bit PCM, blockAlign = 2 * N, byteRate = sampleRate *
\* blockAlign, data chunk size = F * blockAlign and RIFF chunk size = 36 +
\* data chunk size, and the file is 44 + data chunk size bytes long.
C28_WavHeader ==
    lastExport.wav # NoWav =>
        LET w == lastExport.wav
        IN  /\ w.format = 1 /\ w.bitDepth = 16
            /\ w.blockAlign = 2 * w.numChannels
            /\ w.byteRate = w.sampleRate * w.blockAlign
            /\ w.dataSize = w.frames * w.blockAlign
            /\ w.riffSize = 36 + w.dataSize
            /\ w.fileLength = 44 + w.dataSize

\* A WAV file has been written for a stereo buffer as long as a rendered tune.
C28_Witness ==
    /\ lastExport.op = "bufferToWav"
    /\ lastExport.wav.numChannels = 2
    /\ lastExport.wav.frames > 44100

\* C29: a scheduler tick at audio time now schedules exactly the beats whose
\* time is below now + 0.1 s, one after the other in playing order, adds
\* 60/bpm/4 to nextBeatTime for each and returns with nextBeatTime at or
\* beyond now + 0.1 s; at 120 bpm the first tick after play() schedules
\* exactly one beat.
C29_TickFillsWindow ==
    [][lastTransport'.op = "scheduler" /\ isPlaying =>
         LET k       == Len(lastTransport'.beats)
             horizon == now + ScheduleAheadTime
         IN  /\ nextBeatTime' = nextBeatTime + k * secondsPerBeat(bpm)
             /\ nextBeatTime' >= horizon
             /\ \A j \in 0 .. k - 1 : nextBeatTime + j * secondsPerBeat(bpm) < horizon
             /\ k > 0 => lastTransport'.beats[1] = currentBeat
             /\ \A j \in 1 .. k - 1 :
                    lastTransport'.beats[j + 1] = advanceBeat(lastTransport'.beats[j])
             /\ (bpm = 120 /\ lastScheduled = -1) => k = 1]_vars

\* C30: when beat b is played, the voices are triggered exactly for the
\* note-starts at column b mod C, one call per (voice, row), each with the
\* row's pitch and the duration L * (60/bpm/4) * 0.95 for its length L at the
\* transport's tempo; empty cells and continuations trigger nothing.
C30_BeatTriggersNoteStarts ==
    [][lastTransport'.op = "onBeat" =>
         LET col    == lastTransport'.beats[1] % NumCols
             calls  == lastTransport'.calls
             starts == {x \in Voices \X Rows : grid[x[1]][x[2]][col] > 0}
         IN  /\ {<<calls[i].voice, calls[i].noteIndex>> : i \in 1 .. Len(calls)} = starts
             /\ Len(calls) = Cardinality(starts)
             /\ \A i \in 1 .. Len(calls) :
                    calls[i].duration =
                        (grid[calls[i].voice][calls[i].noteIndex][col]
                             * secondsPerBeat(bpm) * 95) \div 100]_vars

\* C31: for every sustain value in [0,1], sustain = 0 included, the envelope
\* of a triggered note holds at sustain * peak from the end of the decay ramp
\* until the release time t0 + duration, in the real-time voice and in the
\* offline renderer alike.
C31_SustainHold ==
    lastEnvelope.op # "none" =>
        LET e        == lastEnvelope
            decayEnd == e.start + e.params.attack + e.params.decay
            release  == e.start + e.duration
        IN  decayEnd <= release =>
                \A t \in {decayEnd, (decayEnd + release) \div 2, release} :
                    valueAt(e.events, t) = (e.params.sustain * e.peak) \div 100

\* C32: in every state reachable through the editing operations every
\* note-start lies wholly inside the grid: 0 <= col and col + length <= C,
\* also after a drag extension, a paste, a duplicate or a move.
C32_NotesInsideGrid ==
    \A v \in Voices, n \in Rows, c \in Cols :
        grid[v][n][c] > 0 => c + grid[v][n][c] <= NumCols

\* C33: while the transport is Playing, (loopStart - 1) * 16 <= currentBeat
\* < loopEnd * 16 holds in every state, under every interleaving of scheduler
\* ticks with setLoopStart and setLoopEnd calls.
C33_BeatInsideLoop ==
    isPlaying => loopStartBeat <= currentBeat /\ currentBeat < loopEndBeat

\* C34: the tempo the transport uses for beat timing (Transport.bpm) and the
\* tempo the sequencer uses for note durations (state.bpm) are equal in
\* every reachable state, after any sequence of setBPM and project
\* operations.
C34_OneTempo == bpm = stateBpm

\* C35: moveSelection and transposeSelection change only the selected notes:
\* every note-start whose start cell lies outside the selection rectangle is
\* unchanged after the operation, and the number of note-starts in the voice
\* is the same before and after.
C35_MoveLeavesOthers ==
    [][lastEdit'.op \in {"moveSelection", "transposeSelection"} =>
         LET v == selection.voice
             startsOf(g) == {x \in Rows \X Cols : g[v][x[1]][x[2]] > 0}
         IN  /\ \A x \in startsOf(grid) :
                    ~isInSelection(selection, v, x[1], x[2]) =>
                        grid'[v][x[1]][x[2]] = grid[v][x[1]][x[2]]
             /\ Cardinality(startsOf(grid')) = Cardinality(startsOf(grid))]_vars

\* C36: whenever a selection exists it is a well-formed rectangle inside
\* the grid: 0 <= startNote <= endNote < P and 0 <= startCol <= endCol < C,
\* after any sequence of startSelection, extendSelection, moveSelection,
\* transposeSelection and duplicateSelection.
C36_SelectionWellFormed ==
    selection # NoSelection =>
        /\ 0 <= selection.startNote /\ selection.startNote <= selection.endNote
        /\ selection.endNote < NumRows
        /\ 0 <= selection.startCol /\ selection.startCol <= selection.endCol
        /\ selection.endCol < NumCols

\* C37: a scheduling tick is armed if and only if the transport is Playing,
\* and at most one tick is armed at any time, after any sequence of play()
\* and stop() calls, repeated play() and repeated stop() included.
C37_OneTickIffPlaying ==
    /\ (liveIntervals # {}) <=> isPlaying
    /\ Cardinality(liveIntervals) <= 1
    /\ isPlaying => liveIntervals = {schedulerInterval}

\* play() called again while Playing, in a playback that was started after
\* an earlier one had been stopped
C37_Witness ==
    /\ isPlaying /\ stoppedAt >= 0
    /\ lastTransport.op = "play" /\ lastTransport.wasPlaying
    /\ Cardinality(liveIntervals) = 1

\* C38: onBeat callbacks are delivered in the order in which their beats
\* were scheduled, also across stop() followed by play(): the callback that
\* runs is always the one scheduled first among those still queued, so a
\* beat of an earlier playback is never delivered after one of a later
\* playback.
C38_DeliveredInScheduleOrder ==
    [][Len(timers') < Len(timers) => timers' = Tail(timers)]_vars

\* the tick that ran last scheduled beat b, or b is no beat of the loop, or
\* the transport is not Playing
ScheduledOrOutside(b) ==
    \/ ~isPlaying
    \/ b < loopStartBeat \/ b >= loopEndBeat
    \/ /\ lastTransport.op = "scheduler"
       /\ \E i \in 1 .. Len(lastTransport.beats) : lastTransport.beats[i] = b

\* C39: while the transport stays Playing, with the tick firing fairly and
\* the audio clock advancing, every beat index of the loop
\* [(loopStart-1)*16, loopEnd*16) is scheduled again and again: playback
\* never gets stuck on a beat and never stops scheduling.
C39_EveryBeatAgainAndAgain ==
    \A b \in 0 .. DefaultLoopEnd * BeatsPerBar - 1 : []<>ScheduledOrOutside(b)

\* the loop has wrapped: the tick schedules the first beat of the loop right
\* after its last beat
C39_Witness ==
    /\ isPlaying
    /\ lastTransport.op = "scheduler"
    /\ lastTransport.prev = loopEndBeat - 1
    /\ lastTransport.beats # <<>>
    /\ lastTransport.beats[1] = loopStartBeat

\* C40: copying a selection and pasting it back at the same selection origin
\* leaves the grid unchanged, and pasting the same clipboard twice at the
\* same origin gives the same grid as pasting it once.
C40_PasteBackAndTwice ==
    [][lastEdit'.op = "pasteClipboard" /\ selection # NoSelection =>
         /\ lastEdit.op = "copySelection" => grid' = grid
         /\ (/\ lastEdit.op = "pasteClipboard"
             /\ lastEdit.voice = selection.voice
             /\ lastEdit.noteIndex = selection.startNote
             /\ lastEdit.col = selection.startCol) => grid' = grid]_vars

\* a clipboard with a note-start has been pasted at another origin than it
\* was copied from, where the grid now holds what the clipboard holds
C40_Witness ==
    /\ lastEdit.op = "pasteClipboard"
    /\ selection # NoSelection
    /\ clipboard.notes # <<>>
    /\ grid # SelectGrid
    /\ copiedNotes(grid, [selection EXCEPT
                             !.endNote = selection.startNote + clipboard.height - 1,
                             !.endCol  = selection.startCol + clipboard.width - 1])
           = clipboard.notes
====
